---- MODULE Spec2Model ----
(***************************************************************************)
(* Broken-external-links webhook pipeline of the ObservePoint toolbelt     *)
(* (src/src/WebhookHandler.js): the stage router doPostHandler, the two    *)
(* stage handlers, the retrying report fetch, the secondary-audit update   *)
(* and the dedup / join functions.                                         *)
(*                                                                         *)
(* JavaScript arrays are 0-based and findColumnIndex answers -1 for "not   *)
(* found"; sequences here are 1-based and NotFound is 0.  A cell is a      *)
(* string; Undefined stands for the JavaScript value undefined.            *)
(***************************************************************************)
EXTENDS Integers, Sequences, FiniteSets, TLC

\* ------------------------------------------------------------------ bounds
MaxPages == 2         \* pages one remote report is split into
MaxDeliveries == 2    \* webhook deliveries in one behaviour
MaxAttempts == 3      \* largest maxRetries tried on the retry engine alone
MaxRows == 2          \* rows of each report given to the join on its own
MaxLinks == 3         \* rows given to extractUniqueUrls on its own
MaxSetupRuns == 2     \* runs of the setup wizard in one behaviour
MaxInvocations == 3   \* invocations of the doPost wrapper in one behaviour
MaxPageCount == 11    \* pages of the report one fetchGridReportData call meets
MaxUrls == 2          \* <url> entries of a sitemap
MaxMonitorRuns == 2   \* runMonitor invocations in one behaviour
MaxGridRows == 5       \* rows of the report one fetchAllData call imports
MaxPageSize == 2       \* rows the grid API returns per page
MaxBatchSize == 3      \* the batchSize parameter of fetchAllData
MaxGridPages == 2      \* the maxPages parameter of fetchAllData
ClientMaxRetries == 3  \* this.maxRetries of ObservePointClient
MAX_SHEET_ROWS == 10000000

\* ------------------------------------------------------- program constants
WebhookMaxRetries == 10     \* fetchGridReportDataWithRetry(.., 10, 30)
PageCap == 10               \* "page < 10" in fetchGridReportData

\* ------------------------------------------------------------------ values
Undefined == "<undefined>"
NotFound == 0

SHEET_PRIMARY_REPORT == "Primary_Report"
SHEET_UNIQUE_URLS == "Unique_Link_URLs"
SHEET_BROKEN_REPORT == "Broken_Links_Report"
SHEET_FINAL_REPORT == "Final_Broken_Links"
SHEET_NAMES == {SHEET_PRIMARY_REPORT, SHEET_UNIQUE_URLS,
                SHEET_BROKEN_REPORT, SHEET_FINAL_REPORT}

\* JavaScript truthiness of a cell: '' and undefined are falsy.
Truthy(v) == v # "" /\ v # Undefined

\* row[index] in JavaScript: undefined outside the row.
Cell(row, index) ==
  IF index >= 1 /\ index <= Len(row) THEN row[index] ELSE Undefined

Min(a, b) == IF a <= b THEN a ELSE b

\* The sequences over S of length at most n.
SeqsUpTo(S, n) == UNION {[1..k -> S] : k \in 0..n}

\* ---------------------------------------------------------- pure functions

\* findColumnIndex(headers, columnId): the first position holding columnId.
findColumnIndex(headers, columnId) ==
  IF \E i \in 1..Len(headers) : headers[i] = columnId
  THEN CHOOSE i \in 1..Len(headers) :
         /\ headers[i] = columnId
         /\ \A j \in 1..(i - 1) : headers[j] # columnId
  ELSE NotFound

\* Faulty variant of ExtractFrom: the seen map is not consulted.
RECURSIVE ExtractFrom_NoSeen(_, _, _)
ExtractFrom_NoSeen(rows, columnIndex, unique) ==
  IF rows = <<>> THEN unique
  ELSE LET url == Cell(Head(rows), columnIndex)
       IN ExtractFrom_NoSeen(Tail(rows), columnIndex,
                             IF Truthy(url) THEN Append(unique, url) ELSE unique)

\* extractUniqueUrls(rows, columnIndex): rows.forEach with the seen map.
RECURSIVE ExtractFrom(_, _, _)
ExtractFrom(rows, columnIndex, unique) ==
  IF rows = <<>> THEN unique
  ELSE LET url == Cell(Head(rows), columnIndex)
           seen == {unique[i] : i \in 1..Len(unique)}
       IN ExtractFrom(Tail(rows), columnIndex,
                      IF Truthy(url) /\ url \notin seen
                      THEN Append(unique, url) ELSE unique)

extractUniqueUrls(rows, columnIndex) == ExtractFrom(rows, columnIndex, <<>>)

JoinedHeaders ==
  <<"Source Page URL", "External Link URL", "External Link Text",
    "External Link HTML", "External Link Destination URL",
    "External Link Status Code">>

\* Faulty variant of PrimaryMapGet: the first row with a key is kept.
PrimaryMapGet_FirstWins(rows, keyIndex, key) ==
  LET hits == {i \in 1..Len(rows) :
                 /\ Truthy(Cell(rows[i], keyIndex))
                 /\ Cell(rows[i], keyIndex) = key}
  IN IF hits = {} THEN <<>>
     ELSE << rows[CHOOSE i \in hits : \A j \in hits : i <= j] >>

\* primaryMap after primaryData.rows.forEach: a later row overwrites an
\* earlier one with the same key; rows with a falsy key are not entered.
\* The result is <<row>> for a hit and <<>> for a miss.
PrimaryMapGet(rows, keyIndex, key) ==
  LET hits == {i \in 1..Len(rows) :
                 /\ Truthy(Cell(rows[i], keyIndex))
                 /\ Cell(rows[i], keyIndex) = key}
  IN IF hits = {} THEN <<>>
     ELSE << rows[CHOOSE i \in hits : \A j \in hits : j <= i] >>

\* Faulty variant of Project: the "column absent" test is left out.
Project_Unguarded(row, index) == Cell(row, index)

Project(row, index) == IF index # NotFound THEN Cell(row, index) ELSE ""

\* Faulty variant of JoinRows: an outer join, which keeps a broken row that
\* has no primary row with blank primary columns.
RECURSIVE JoinRows_Outer(_, _, _, _)
JoinRows_Outer(primaryData, brokenData, brokenRows, joinedRows) ==
  IF brokenRows = <<>> THEN joinedRows
  ELSE
    LET primaryLinkUrlIndex == findColumnIndex(primaryData.headers, "LINK_URL")
        secondaryInitialPageIndex == findColumnIndex(brokenData.headers, "INITIAL_PAGE_URL")
        secondaryFinalPageIndex == findColumnIndex(brokenData.headers, "FINAL_PAGE_URL")
        secondaryFinalStatusIndex == findColumnIndex(brokenData.headers, "FINAL_PAGE_STATUS_CODE")
        brokenRow == Head(brokenRows)
        initialPageUrl == Cell(brokenRow, secondaryInitialPageIndex)
        found == PrimaryMapGet(primaryData.rows, primaryLinkUrlIndex, initialPageUrl)
        out == << << IF found = <<>> THEN ""
                     ELSE Project(found[1], findColumnIndex(primaryData.headers, "FINAL_PAGE_URL")),
                     IF found = <<>> THEN initialPageUrl
                     ELSE Project(found[1], primaryLinkUrlIndex),
                     "text", "<a>",
                     Project(brokenRow, secondaryFinalPageIndex),
                     Project(brokenRow, secondaryFinalStatusIndex) >> >>
    IN JoinRows_Outer(primaryData, brokenData, Tail(brokenRows), joinedRows \o out)

RECURSIVE JoinRows(_, _, _, _)
JoinRows(primaryData, brokenData, brokenRows, joinedRows) ==
  IF brokenRows = <<>> THEN joinedRows
  ELSE
    LET primaryLinkUrlIndex == findColumnIndex(primaryData.headers, "LINK_URL")
        primarySourcePageIndex == findColumnIndex(primaryData.headers, "FINAL_PAGE_URL")
        primaryLinkTextIndex == findColumnIndex(primaryData.headers, "LINK_TEXT")
        primaryLinkHtmlIndex == findColumnIndex(primaryData.headers, "LINK_OUTER_HTML")
        secondaryInitialPageIndex == findColumnIndex(brokenData.headers, "INITIAL_PAGE_URL")
        secondaryFinalPageIndex == findColumnIndex(brokenData.headers, "FINAL_PAGE_URL")
        secondaryFinalStatusIndex == findColumnIndex(brokenData.headers, "FINAL_PAGE_STATUS_CODE")
        brokenRow == Head(brokenRows)
        initialPageUrl == Cell(brokenRow, secondaryInitialPageIndex)
        found == PrimaryMapGet(primaryData.rows, primaryLinkUrlIndex, initialPageUrl)
        out == IF found = <<>> THEN <<>>
               ELSE << << Project(found[1], primarySourcePageIndex),
                          Project(found[1], primaryLinkUrlIndex),
                          Project(found[1], primaryLinkTextIndex),
                          Project(found[1], primaryLinkHtmlIndex),
                          Project(brokenRow, secondaryFinalPageIndex),
                          Project(brokenRow, secondaryFinalStatusIndex) >> >>
    IN JoinRows(primaryData, brokenData, Tail(brokenRows), joinedRows \o out)

joinReports(primaryData, brokenData) ==
  [headers |-> JoinedHeaders,
   rows |-> JoinRows(primaryData, brokenData, brokenData.rows, <<>>)]

\* ------------------------------------------------------------ spreadsheet
\* A sheet is absent or holds a rectangle of cells (a sequence of rows).
AbsentSheet == [exists |-> FALSE, data |-> <<>>]

\* sheet.getDataRange().getValues(): an empty sheet reads as one empty cell.
getDataRangeValues(sheet) ==
  IF sheet.data = <<>> THEN << <<"">> >> ELSE sheet.data

\* Faulty variant of writeGridDataToSheet: the sheet is not cleared, so the
\* rows below the new data stay.
writeGridDataToSheet_NoClear(sh, sheetName, gridData) ==
  LET old == sh[sheetName].data
      allData == IF gridData.rows = <<>> THEN <<gridData.headers>>
                 ELSE <<gridData.headers>> \o gridData.rows
      kept == IF Len(old) > Len(allData)
              THEN SubSeq(old, Len(allData) + 1, Len(old)) ELSE <<>>
  IN IF Len(gridData.headers) = 0
     THEN [sheets |-> [sh EXCEPT ![sheetName] = [exists |-> TRUE, data |-> old]],
           threw |-> TRUE]
     ELSE [sheets |-> [sh EXCEPT ![sheetName] =
                         [exists |-> TRUE, data |-> allData \o kept]],
           threw |-> FALSE]

\* writeGridDataToSheet(sheetName, gridData): create if absent, clear, then
\* setValues on getRange(1, 1, numRows, gridData.headers.length).  getRange
\* raises "The number of columns in the range must be at least 1" for a
\* width of 0, after the sheet has been cleared.
writeGridDataToSheet(sh, sheetName, gridData) ==
  LET cleared == [sh EXCEPT ![sheetName] = [exists |-> TRUE, data |-> <<>>]]
      allData == IF gridData.rows = <<>> THEN <<gridData.headers>>
                 ELSE <<gridData.headers>> \o gridData.rows
  IN IF Len(gridData.headers) = 0
     THEN [sheets |-> cleared, threw |-> TRUE]
     ELSE [sheets |-> [cleared EXCEPT ![sheetName].data = allData],
           threw |-> FALSE]

\* writeUniqueUrlsToSheet(sheetName, urls): one header row, one row per URL.
writeUniqueUrlsToSheet(sh, sheetName, urls) ==
  [sh EXCEPT ![sheetName] =
     [exists |-> TRUE,
      data |-> << <<"Link URL">> >> \o [i \in 1..Len(urls) |-> <<urls[i]>>]]]

\* getUniqueUrlsFromSheet(): rows after the first whose first cell is truthy.
RECURSIVE TruthyFirstCells(_)
TruthyFirstCells(rows) ==
  IF rows = <<>> THEN <<>>
  ELSE (IF Truthy(Cell(Head(rows), 1)) THEN <<Head(rows)[1]>> ELSE <<>>)
       \o TruthyFirstCells(Tail(rows))

\* Faulty variant of getUniqueUrlsFromSheet: the header row is read as a URL.
getUniqueUrlsFromSheet_WithHeader(sh) ==
  IF ~sh[SHEET_UNIQUE_URLS].exists
  THEN [threw |-> TRUE, urls |-> <<>>]
  ELSE [threw |-> FALSE,
        urls |-> TruthyFirstCells(getDataRangeValues(sh[SHEET_UNIQUE_URLS]))]

getUniqueUrlsFromSheet(sh) ==
  IF ~sh[SHEET_UNIQUE_URLS].exists
  THEN [threw |-> TRUE, urls |-> <<>>]
  ELSE [threw |-> FALSE,
        urls |-> TruthyFirstCells(Tail(getDataRangeValues(sh[SHEET_UNIQUE_URLS])))]

\* readSheetAsGridData(sheetName): an absent sheet reads as the empty report.
readSheetAsGridData(sh, sheetName) ==
  IF ~sh[sheetName].exists THEN [headers |-> <<>>, rows |-> <<>>]
  ELSE LET data == getDataRangeValues(sh[sheetName])
       IN [headers |-> Head(data), rows |-> Tail(data)]

\* ------------------------------------------------------ configuration
GoodConfig ==
  [hasSheet |-> TRUE, OP_API_KEY |-> "key", PRIMARY_REPORT_ID |-> "16008",
   BROKEN_REPORT_ID |-> "16009", SECONDARY_AUDIT_ID |-> "2018768"]

Configs ==
  {GoodConfig,
   [GoodConfig EXCEPT !.hasSheet = FALSE],
   [GoodConfig EXCEPT !.OP_API_KEY = ""]}

SheetError == "Service error: Spreadsheets"
RangeError == "The number of columns in the range must be at least 1"

\* getConfig(): the error it raises, or "" when it returns.
getConfigError(cfg, down) ==
  IF down THEN SheetError
  ELSE IF ~cfg.hasSheet THEN "Config sheet not found"
  ELSE IF cfg.OP_API_KEY = "" THEN "OP_API_KEY not set in Config sheet"
  ELSE ""

\* ------------------------------------------------------------ the remote
Statuses == {200, 500}

PageNames == <<"pageA", "pageB", "pageC">>

PrimaryHeaderLayouts ==
  [std |-> <<"FINAL_PAGE_URL", "LINK_URL", "LINK_TEXT", "LINK_OUTER_HTML">>,
   swapped |-> <<"LINK_URL", "FINAL_PAGE_URL", "LINK_TEXT", "LINK_OUTER_HTML">>,
   nolink |-> <<"FINAL_PAGE_URL", "LINK_TEXT">>,
   short |-> <<"LINK_URL", "FINAL_PAGE_URL">>]

PrimaryCell(columnId, i, link) ==
  CASE columnId = "FINAL_PAGE_URL" -> PageNames[i]
    [] columnId = "LINK_URL" -> link
    [] columnId = "LINK_TEXT" -> "text"
    [] OTHER -> "<a>"

\* A primary (links) report with the given column layout whose i-th row
\* holds links[i] in its LINK_URL column.
PrimaryReport(h, links) ==
  [headers |-> h,
   rows |-> [i \in 1..Len(links) |->
               [k \in 1..Len(h) |-> PrimaryCell(h[k], i, links[i])]]]

BrokenHeaders == <<"INITIAL_PAGE_URL", "FINAL_PAGE_URL", "FINAL_PAGE_STATUS_CODE">>

BrokenCell(columnId, target) ==
  CASE columnId = "INITIAL_PAGE_URL" -> target
    [] columnId = "FINAL_PAGE_URL" -> "dest"
    [] OTHER -> IF target = "u1" THEN "404" ELSE "500"

\* A broken-links (pages) report with columns h whose i-th row is about
\* targets[i].
BrokenReportWith(h, targets) ==
  [headers |-> h,
   rows |-> [i \in 1..Len(targets) |->
               [k \in 1..Len(h) |-> BrokenCell(h[k], targets[i])]]]

BrokenReport(targets) == BrokenReportWith(BrokenHeaders, targets)

\* The reports (headers and all rows) the remote may hold for a report ID:
\* empty, with duplicate and blank link URLs, with the columns in another
\* order, without the LINK_URL column.
RemoteReports(kind) ==
  IF kind = "primary"
  THEN {PrimaryReport(PrimaryHeaderLayouts.std, <<>>),
        PrimaryReport(PrimaryHeaderLayouts.std, <<"u1">>),
        PrimaryReport(PrimaryHeaderLayouts.std, <<"u1", "u2", "u1">>),
        PrimaryReport(PrimaryHeaderLayouts.swapped, <<"u2", "", "u2">>),
        PrimaryReport(PrimaryHeaderLayouts.std, <<"">>),
        PrimaryReport(PrimaryHeaderLayouts.nolink, <<"u1">>)}
  ELSE {BrokenReport(<<>>),
        BrokenReport(<<"u1">>),
        BrokenReport(<<"u3", "u2">>),
        BrokenReport(<<"u1", "u3", "u1">>)}

\* The ways the remote cuts rows into at most p pages.
RECURSIVE Splits(_, _)
Splits(rows, p) ==
  IF p <= 1 \/ Len(rows) <= 1 THEN {<<rows>>}
  ELSE {<<rows>>} \cup
       UNION {{<<SubSeq(rows, 1, k)>> \o rest :
                 rest \in Splits(SubSeq(rows, k + 1, Len(rows)), p - 1)} :
              k \in 1..(Len(rows) - 1)}

\* What the remote answers to one fetchGridReportData: the status of the
\* saved-report GET, the headers of the first page's metadata, and the pages
\* with the status of each page request.
RemoteAnswers(kind) ==
  UNION {UNION {{[saved |-> sv, headers |-> r.headers, rows |-> pg, codes |-> cs] :
                   sv \in Statuses, cs \in [1..Len(pg) -> Statuses]} :
                pg \in Splits(r.rows, MaxPages)} :
         r \in RemoteReports(kind)}

\* Rows of pages 2..Min(totalPages, PageCap) whose request answered 200.
RECURSIVE LaterPages(_, _, _)
LaterPages(answer, page, last) ==
  IF page > last THEN <<>>
  ELSE (IF answer.codes[page] = 200 THEN answer.rows[page] ELSE <<>>)
       \o LaterPages(answer, page + 1, last)

\* Whether a request fetchGridReportData makes on this answer (the saved
\* report, the first page, each later page it asks for) is answered with a
\* status of 300 or more.
RequestFailed(answer) ==
  \/ answer.saved >= 300
  \/ answer.codes[1] >= 300
  \/ \E page \in 2..Min(Len(answer.rows), PageCap) : answer.codes[page] >= 300

\* fetchGridReportData(reportId, config) on a remote answer.
fetchGridReportData(answer) ==
  IF answer.saved >= 300
  THEN [threw |-> TRUE, err |-> "Saved report fetch failed",
        data |-> [headers |-> <<>>, rows |-> <<>>]]
  ELSE IF answer.codes[1] >= 300
  THEN [threw |-> TRUE, err |-> "Grid data fetch failed",
        data |-> [headers |-> <<>>, rows |-> <<>>]]
  ELSE [threw |-> FALSE, err |-> "",
        data |-> [headers |-> answer.headers,
                  rows |-> answer.rows[1] \o
                           LaterPages(answer, 2, Min(Len(answer.rows), PageCap))]]

\* ------------------------------------------------------------------ state
VARIABLES
  config,       \* the Config sheet
  sheetsDown,   \* the spreadsheet service currently fails every call
  sheets,       \* the four persisted tables
  audit,        \* the secondary audit as the remote holds it
  pc,           \* position of the current invocation
  rawStage,     \* e.parameter.stage as delivered ("" when missing)
  stage,        \* the local const stage of doPostHandler
  caller,       \* who called fetchGridReportDataWithRetry
  reportKind,   \* which report ID is being fetched
  attempt,      \* loop variable of fetchGridReportDataWithRetry
  maxRetries,   \* its parameter
  reportData,   \* its return value (reportData / brokenData)
  uniqueUrls,   \* uniqueUrls of handlePrimaryAuditComplete
  auditObj,     \* the audit as parsed from the GET response
  fetches,      \* fetchGridReportData calls of this invocation, per report
  sleeps,       \* Utilities.sleep calls of this invocation
  remoteFailed, \* a report request of this invocation was answered >= 300
  lastFetched,  \* what the latest fetchGridReportData call returned
  auditCalls,   \* web-audits requests of this invocation, in order
  err,          \* message of the exception being propagated
  result,       \* how the invocation ended
  written,      \* tables this invocation has cleared or written
  deliveries,   \* deliveries so far
  setupPc,      \* position of the current setup run
  setupConfig,  \* the object getConfigForSetup returned to the run
  setupResults, \* {id, created} of the three create-or-get calls of the run
  remoteCreated,\* resources the remote has created, per kind
  calls,        \* every create-or-get call so far, per kind, in order
  setupRuns,    \* setup runs started so far
  setupDone,    \* configured IDs and remote resources at the last completed run
  webhookBaseUrl, \* the WEBHOOK_BASE_URL row of the Config sheet
  webhooks,     \* options.webHookUrl of each audit as the remote holds it
  wpc,          \* position of each doPost wrapper invocation
  hasLock,      \* the local hasLock of each wrapper invocation
  lockHolder,   \* the invocation holding the script lock, 0 when free
  response,     \* what each wrapper invocation returned
  routerCalled, \* whether each wrapper invocation has called the router
  deliveryStage, \* e.parameter.stage of the delivery each invocation handles
  invocations,  \* wrapper invocations started so far
  workers,      \* position and locals of each concurrent primary-stage invocation
  serialized,   \* whether the caller lets one invocation run at a time
  request,      \* one ObservePointClient.makeRequest call: loop state and outcome
  grid,         \* one fetchAllData call: parameters, locals and the created sheet
  remote,       \* the paged answer a single fetchGridReportData call meets
  snapshots,    \* the reports primary-stage invocations have persisted, in order
  sitemap,      \* the <url> entries of the sitemap as published now
  tracking,     \* data rows of the SitemapMonitor_Tracking sheet
  monitorSettings, \* AUTO_RUN_AUDIT and the time zone of the spreadsheet
  monitorResult,   \* what the last runMonitor saw, requested and returned
  monitorRuns   \* runMonitor invocations so far

persisted == <<sheets, audit>>
env == <<config, sheetsDown>>
retryVars == <<caller, reportKind, attempt, maxRetries, reportData, fetches,
               sleeps, remoteFailed, lastFetched>>
auditVars == <<uniqueUrls, auditObj, auditCalls>>
setupVars == <<setupPc, setupConfig, setupResults, remoteCreated, calls,
               setupRuns, setupDone, webhookBaseUrl, webhooks>>
monitorVars == <<sitemap, tracking, monitorSettings, monitorResult,
                 monitorRuns>>
reentrantVars == <<workers, serialized>>
clientVars == <<request, grid>>
lockVars == <<wpc, hasLock, lockHolder, response, routerCalled, invocations,
             deliveryStage>>
routerVars == <<sheetsDown, sheets, audit, pc, rawStage, stage, caller,
                reportKind, attempt, maxRetries, reportData, uniqueUrls,
                auditObj, fetches, sleeps,
                remoteFailed, lastFetched, auditCalls, err,
                result, written, deliveries, reentrantVars, clientVars, remote, snapshots,
                monitorVars>>
vars == <<config, sheetsDown, sheets, audit, pc, rawStage, stage, caller,
          reportKind, attempt, maxRetries, reportData, uniqueUrls, auditObj,
          fetches, sleeps,
          remoteFailed, lastFetched, auditCalls, err, result, written,
          deliveries,
          setupPc, setupConfig, setupResults, remoteCreated, calls,
          setupRuns, setupDone, webhookBaseUrl, webhooks,
          wpc, hasLock, lockHolder, response, routerCalled, invocations,
          deliveryStage,
          workers, serialized, request, grid, remote, snapshots,
          sitemap, tracking, monitorSettings, monitorResult, monitorRuns>>

EmptyReport == [headers |-> <<>>, rows |-> <<>>]

\* The sitemap monitor has never run and monitors nothing.
NoMonitorResult ==
  [seen |-> <<>>, fetched |-> FALSE, threw |-> FALSE, requests |-> <<>>,
   newUrls |-> 0, updatedUrls |-> 0, auditUpdated |-> FALSE, auditRun |-> FALSE]

MonitorIdle ==
  /\ sitemap = <<>>
  /\ tracking = <<>>
  /\ monitorSettings = [AUTO_RUN_AUDIT |-> TRUE, timeZoneEast |-> FALSE]
  /\ monitorResult = NoMonitorResult
  /\ monitorRuns = 0

\* Two executions of the web app.
Workers == {1, 2}

\* No concurrent invocation is under study.
NoWorker == [pc |-> "idle", reportData |-> EmptyReport, uniqueUrls |-> <<>>,
             sent |-> FALSE]

ReentrantIdle ==
  /\ workers = [p \in Workers |-> NoWorker]
  /\ serialized = TRUE

\* No makeRequest call and no grid import is under study.
NoRequest == [pc |-> "idle", method |-> "get", retries |-> 0, requests |-> 0,
              sleeps |-> 0, answers |-> <<>>, value |-> Undefined]

NoImport ==
  [pc |-> "idle", total |-> 0, pageSize |-> 1, batchSize |-> 1, maxPages |-> 0,
   currentPage |-> 0, totalRows |-> 0, allRows |-> <<>>, currentSheetRow |-> 2,
   headerRow |-> FALSE, headerWrites |-> 0, cells |-> <<>>, writes |-> 0,
   returned |-> 0]

ClientIdle ==
  /\ request = NoRequest
  /\ grid = NoImport

\* No single-call answer is under study.
NoRemote == [saved |-> 200, headers |-> <<>>, rows |-> <<<<>>>>, codes |-> <<200>>]
NoResult == [kind |-> "none", body |-> <<>>]
TextOutput(parts) == [kind |-> "text", body |-> parts]
Thrown(msg) == [kind |-> "throw", body |-> <<msg>>]

\* The secondary audit as GET /v2/web-audits/{id} returns it: the settings
\* and the fields the remote assigns itself.
InitialAudit ==
  [startingUrls |-> <<"https://example.com">>, limit |-> 1,
   created |-> "2024-01-01", lastUpdated |-> "2024-01-02",
   lastRun |-> "2024-01-03", runs |-> <<"run1">>, webAuditRunning |-> FALSE]

\* No table has been created yet.
NoSheets == [n \in SHEET_NAMES |-> AbsentSheet]

StageParams == {"primary", "secondary", "PRIMARY", "Secondary", "unknown", ""}

\* String.prototype.toLowerCase on the stage values above.
toLowerCase(s) ==
  CASE s = "PRIMARY" -> "primary"
    [] s = "Secondary" -> "secondary"
    [] OTHER -> s

\* ------------------------------------------------------------ setup wizard
\* The three resources the wizard provisions and the Config setting holding
\* the ID of each.
Kinds == {"primaryReport", "secondaryAudit", "secondaryReport"}

ConfigKey(kind) ==
  CASE kind = "primaryReport" -> "PRIMARY_REPORT_ID"
    [] kind = "secondaryAudit" -> "SECONDARY_AUDIT_ID"
    [] OTHER -> "BROKEN_REPORT_ID"

\* result.id of the remote's answers to create requests, in order of creation.
RemoteIds == <<"r1", "r2", "r3", "r4", "r5", "r6", "r7", "r8", "r9", "r10",
               "r11", "r12">>

NewRemoteId(created) ==
  RemoteIds[Min(1 + created["primaryReport"] + created["secondaryAudit"]
                  + created["secondaryReport"], Len(RemoteIds))]

NoCall == [id |-> "", created |-> FALSE]
NoSetupConfig ==
  [API_KEY |-> "", PRIMARY_REPORT_ID |-> "", BROKEN_REPORT_ID |-> "",
   SECONDARY_AUDIT_ID |-> ""]
NoSetupDone ==
  [done |-> FALSE, run |-> 0, ids |-> [k \in Kinds |-> ""],
   created |-> [k \in Kinds |-> 0]]

\* The audits the wizard may configure: the primary audit of the Config
\* sheet, a secondary audit configured by hand, and those the remote creates.
PrimaryAuditId == "1001"
AuditIds == {PrimaryAuditId, "2018768"} \cup {RemoteIds[i] : i \in 1..Len(RemoteIds)}

\* A webhook URL is kept as the parts it was concatenated from; <<>> when
\* the audit has none.
NoWebhooks == [a \in AuditIds |-> <<>>]

\* The Web App URLs collectSetupInputs may detect or be given.
WebAppUrls == {"https://script.google.com/macros/s/A/exec",
               "https://script.google.com/macros/s/B/exec"}

\* No setup run has been started.
SetupIdle ==
  /\ setupPc = "idle"
  /\ setupConfig = NoSetupConfig
  /\ setupResults = [k \in Kinds |-> NoCall]
  /\ remoteCreated = [k \in Kinds |-> 0]
  /\ calls = [k \in Kinds |-> <<>>]
  /\ setupRuns = 0
  /\ setupDone = NoSetupDone
  /\ webhookBaseUrl = ""
  /\ webhooks = NoWebhooks

\* No webhook delivery has reached the doPost wrapper.
Procs == {1, 2}
LockIdle ==
  /\ wpc = [p \in Procs |-> "idle"]
  /\ hasLock = [p \in Procs |-> FALSE]
  /\ lockHolder = 0
  /\ response = [p \in Procs |-> NoResult]
  /\ routerCalled = [p \in Procs |-> FALSE]
  /\ deliveryStage = [p \in Procs |-> ""]
  /\ invocations = 0

InitLocals ==
  /\ rawStage = ""
  /\ stage = ""
  /\ caller = "none"
  /\ reportKind = "primary"
  /\ attempt = 0
  /\ maxRetries = 0
  /\ reportData = EmptyReport
  /\ uniqueUrls = <<>>
  /\ auditObj = InitialAudit
  /\ fetches = [k \in {"primary", "broken"} |-> 0]
  /\ sleeps = 0
  /\ remoteFailed = FALSE
  /\ lastFetched = EmptyReport
  /\ auditCalls = <<>>
  /\ err = ""
  /\ result = NoResult
  /\ written = {}

Init ==
  /\ SetupIdle
  /\ LockIdle
  /\ MonitorIdle
  /\ remote = NoRemote
  /\ ReentrantIdle
  /\ ClientIdle
  /\ snapshots = <<>>
  /\ config \in Configs
  /\ sheetsDown = FALSE
  /\ sheets = NoSheets
  /\ audit = InitialAudit
  /\ pc = "idle"
  /\ deliveries = 0
  /\ InitLocals

\* throw new Error(msg): control passes to the catch of doPostHandler.
Throw(msg) == pc' = "catch" /\ err' = msg

\* ---------------------------------------------------------------- router
\* Faulty variant of DoPostHandler: the stage parameter is compared as
\* delivered, without lower-casing.
DoPostHandler_ExactCase(raw) ==
  LET s == raw IN
  /\ UNCHANGED <<setupVars, lockVars, reentrantVars, clientVars, remote,
                 snapshots, monitorVars>>
  /\ pc \in {"idle", "done"}
  /\ deliveries < MaxDeliveries
  /\ deliveries' = deliveries + 1
  /\ rawStage' = raw
  /\ stage' = s
  /\ caller' = "none"
  /\ reportKind' = "primary"
  /\ attempt' = 0
  /\ maxRetries' = 0
  /\ reportData' = EmptyReport
  /\ uniqueUrls' = <<>>
  /\ auditObj' = InitialAudit
  /\ fetches' = [k \in {"primary", "broken"} |-> 0]
  /\ sleeps' = 0
  /\ remoteFailed' = FALSE
  /\ lastFetched' = EmptyReport
  /\ auditCalls' = <<>>
  /\ written' = {}
  /\ UNCHANGED <<persisted, env>>
  /\ IF s = ""
     THEN /\ pc' = "done"
          /\ err' = IF sheetsDown THEN SheetError ELSE ""
          /\ result' = IF sheetsDown THEN Thrown(SheetError)
                       ELSE TextOutput(<<"Missing stage parameter">>)
     ELSE /\ result' = NoResult
          /\ IF s = "primary" THEN pc' = "p_start" /\ err' = ""
             ELSE IF s = "secondary" THEN pc' = "s_start" /\ err' = ""
             ELSE Throw("Unknown stage")

\* doPostHandler(e), up to the dispatch: read and lower-case the stage,
\* answer a missing stage at once (after a log call outside the try).
DoPostHandler(raw) ==
  LET s == toLowerCase(raw) IN
  /\ UNCHANGED <<setupVars, lockVars, reentrantVars, clientVars, remote,
                 snapshots, monitorVars>>
  /\ pc \in {"idle", "done"}
  /\ deliveries < MaxDeliveries
  /\ deliveries' = deliveries + 1
  /\ rawStage' = raw
  /\ stage' = s
  /\ caller' = "none"
  /\ reportKind' = "primary"
  /\ attempt' = 0
  /\ maxRetries' = 0
  /\ reportData' = EmptyReport
  /\ uniqueUrls' = <<>>
  /\ auditObj' = InitialAudit
  /\ fetches' = [k \in {"primary", "broken"} |-> 0]
  /\ sleeps' = 0
  /\ remoteFailed' = FALSE
  /\ lastFetched' = EmptyReport
  /\ auditCalls' = <<>>
  /\ written' = {}
  /\ UNCHANGED <<persisted, env>>
  /\ IF s = ""
     THEN /\ pc' = "done"
          /\ err' = IF sheetsDown THEN SheetError ELSE ""
          /\ result' = IF sheetsDown THEN Thrown(SheetError)
                       ELSE TextOutput(<<"Missing stage parameter">>)
     ELSE /\ result' = NoResult
          /\ IF s = "primary" THEN pc' = "p_start" /\ err' = ""
             ELSE IF s = "secondary" THEN pc' = "s_start" /\ err' = ""
             ELSE Throw("Unknown stage")

\* The catch block of doPostHandler: Logger.log, log('ERROR', ...), then the
\* error text.  The log call is not guarded: if it raises, the handler raises.
CatchError ==
  /\ UNCHANGED <<setupVars, lockVars, reentrantVars, clientVars, remote,
                 snapshots, monitorVars>>
  /\ pc = "catch"
  /\ pc' = "done"
  /\ result' = IF sheetsDown THEN Thrown(SheetError)
               ELSE TextOutput(<<"Error: ", err>>)
  /\ UNCHANGED <<persisted, env, rawStage, stage, retryVars, auditVars, err,
                 written, deliveries>>

\* ------------------------------------------------------- retry-fetch engine
Continuation(who) ==
  CASE who = "primary" -> "p_write"
    [] who = "secondary" -> "s_write"
    [] OTHER -> "returned"

\* Faulty variant of FetchAttempt: an attempt answered with an error status
\* is treated like an empty one, so the loop sleeps and tries again.
FetchAttempt_RetriesOnError ==
  /\ UNCHANGED <<setupVars, lockVars, reentrantVars, clientVars, remote,
                 snapshots, monitorVars>>
  /\ pc = "fetch"
  /\ attempt <= maxRetries
  /\ UNCHANGED <<persisted, env, rawStage, stage, caller, reportKind,
                 maxRetries, auditVars, result, written, deliveries>>
  /\ IF sheetsDown
     THEN /\ Throw(SheetError)
          /\ UNCHANGED <<attempt, reportData, fetches, sleeps,
                         remoteFailed, lastFetched>>
     ELSE \E answer \in RemoteAnswers(reportKind) :
            LET got == fetchGridReportData(answer) IN
            /\ fetches' = [fetches EXCEPT ![reportKind] = @ + 1]
            /\ remoteFailed' = (remoteFailed \/ RequestFailed(answer))
            /\ lastFetched' = IF got.threw THEN EmptyReport ELSE got.data
            /\ IF got.threw /\ attempt >= maxRetries
               THEN /\ Throw(got.err)
                    /\ UNCHANGED <<attempt, reportData, sleeps>>
               ELSE IF ~got.threw /\ Len(got.data.rows) > 0
               THEN /\ reportData' = got.data
                    /\ pc' = Continuation(caller)
                    /\ UNCHANGED <<attempt, sleeps, err>>
               ELSE IF attempt < maxRetries
               THEN /\ sleeps' = sleeps + 1
                    /\ attempt' = attempt + 1
                    /\ UNCHANGED <<pc, reportData, err>>
               ELSE /\ attempt' = attempt + 1
                    /\ reportData' = EmptyReport
                    /\ pc' = Continuation(caller)
                    /\ UNCHANGED <<sleeps, err>>

\* Faulty variant of FetchAttempt: the loop also sleeps after its last
\* attempt.
FetchAttempt_SleepsAfterLast ==
  /\ UNCHANGED <<setupVars, lockVars, reentrantVars, clientVars, remote,
                 snapshots, monitorVars>>
  /\ pc = "fetch"
  /\ attempt <= maxRetries
  /\ UNCHANGED <<persisted, env, rawStage, stage, caller, reportKind,
                 maxRetries, auditVars, result, written, deliveries>>
  /\ IF sheetsDown
     THEN /\ Throw(SheetError)
          /\ UNCHANGED <<attempt, reportData, fetches, sleeps,
                         remoteFailed, lastFetched>>
     ELSE \E answer \in RemoteAnswers(reportKind) :
            LET got == fetchGridReportData(answer) IN
            /\ fetches' = [fetches EXCEPT ![reportKind] = @ + 1]
            /\ remoteFailed' = (remoteFailed \/ RequestFailed(answer))
            /\ lastFetched' = IF got.threw THEN EmptyReport ELSE got.data
            /\ IF got.threw
               THEN /\ Throw(got.err)
                    /\ UNCHANGED <<attempt, reportData, sleeps>>
               ELSE IF Len(got.data.rows) > 0
               THEN /\ reportData' = got.data
                    /\ pc' = Continuation(caller)
                    /\ UNCHANGED <<attempt, sleeps, err>>
               ELSE IF attempt < maxRetries
               THEN /\ sleeps' = sleeps + 1
                    /\ attempt' = attempt + 1
                    /\ UNCHANGED <<pc, reportData, err>>
               ELSE /\ sleeps' = sleeps + 1
                    /\ attempt' = attempt + 1
                    /\ reportData' = EmptyReport
                    /\ pc' = Continuation(caller)
                    /\ UNCHANGED err

\* Faulty variant of FetchAttempt: rows fetched before the last attempt do
\* not end the loop.
FetchAttempt_ReturnsAfterLastOnly ==
  /\ UNCHANGED <<setupVars, lockVars, reentrantVars, clientVars, remote,
                 snapshots, monitorVars>>
  /\ pc = "fetch"
  /\ attempt <= maxRetries
  /\ UNCHANGED <<persisted, env, rawStage, stage, caller, reportKind,
                 maxRetries, auditVars, result, written, deliveries>>
  /\ IF sheetsDown
     THEN /\ Throw(SheetError)
          /\ UNCHANGED <<attempt, reportData, fetches, sleeps,
                         remoteFailed, lastFetched>>
     ELSE \E answer \in RemoteAnswers(reportKind) :
            LET got == fetchGridReportData(answer) IN
            /\ fetches' = [fetches EXCEPT ![reportKind] = @ + 1]
            /\ remoteFailed' = (remoteFailed \/ RequestFailed(answer))
            /\ lastFetched' = IF got.threw THEN EmptyReport ELSE got.data
            /\ IF got.threw
               THEN /\ Throw(got.err)
                    /\ UNCHANGED <<attempt, reportData, sleeps>>
               ELSE IF Len(got.data.rows) > 0 /\ attempt >= maxRetries
               THEN /\ reportData' = got.data
                    /\ pc' = Continuation(caller)
                    /\ UNCHANGED <<attempt, sleeps, err>>
               ELSE IF attempt < maxRetries
               THEN /\ sleeps' = sleeps + 1
                    /\ attempt' = attempt + 1
                    /\ UNCHANGED <<pc, reportData, err>>
               ELSE /\ attempt' = attempt + 1
                    /\ reportData' = EmptyReport
                    /\ pc' = Continuation(caller)
                    /\ UNCHANGED <<sleeps, err>>

\* One iteration of the for loop of fetchGridReportDataWithRetry: log, one
\* fetchGridReportData, then return the rows, or sleep and go on, or (after
\* the last attempt) leave the loop with attempt = maxRetries + 1 and
\* return the empty report.
FetchAttempt ==
  /\ UNCHANGED <<setupVars, lockVars, reentrantVars, clientVars, remote,
                 snapshots, monitorVars>>
  /\ pc = "fetch"
  /\ attempt <= maxRetries
  /\ UNCHANGED <<persisted, env, rawStage, stage, caller, reportKind,
                 maxRetries, auditVars, result, written, deliveries>>
  /\ IF sheetsDown
     THEN /\ Throw(SheetError)
          /\ UNCHANGED <<attempt, reportData, fetches, sleeps,
                         remoteFailed, lastFetched>>
     ELSE \E answer \in RemoteAnswers(reportKind) :
            LET got == fetchGridReportData(answer) IN
            /\ fetches' = [fetches EXCEPT ![reportKind] = @ + 1]
            /\ remoteFailed' = (remoteFailed \/ RequestFailed(answer))
            /\ lastFetched' = IF got.threw THEN EmptyReport ELSE got.data
            /\ IF got.threw
               THEN /\ Throw(got.err)
                    /\ UNCHANGED <<attempt, reportData, sleeps>>
               ELSE IF Len(got.data.rows) > 0
               THEN /\ reportData' = got.data
                    /\ pc' = Continuation(caller)
                    /\ UNCHANGED <<attempt, sleeps, err>>
               ELSE IF attempt < maxRetries
               THEN /\ sleeps' = sleeps + 1
                    /\ attempt' = attempt + 1
                    /\ UNCHANGED <<pc, reportData, err>>
               ELSE /\ attempt' = attempt + 1
                    /\ reportData' = EmptyReport
                    /\ pc' = Continuation(caller)
                    /\ UNCHANGED <<sleeps, err>>

\* ------------------------------------------------------------ primary stage
\* Faulty variant of ProcessPrimaryStart: the primary stage asks for the
\* broken-links report.
ProcessPrimaryStart_FetchesBroken ==
  /\ UNCHANGED <<setupVars, lockVars, reentrantVars, clientVars, remote,
                 snapshots, monitorVars>>
  /\ pc = "p_start"
  /\ UNCHANGED <<persisted, env, rawStage, stage, reportData, fetches, sleeps,
                 remoteFailed, lastFetched, auditVars, result, written,
                 deliveries>>
  /\ IF getConfigError(config, sheetsDown) # ""
     THEN /\ Throw(getConfigError(config, sheetsDown))
          /\ UNCHANGED <<caller, reportKind, attempt, maxRetries>>
     ELSE /\ pc' = "fetch"
          /\ caller' = "primary"
          /\ reportKind' = "broken"
          /\ attempt' = 1
          /\ maxRetries' = WebhookMaxRetries
          /\ UNCHANGED err

\* processPrimaryReportData: getConfig, log, call the retry engine (10, 30).
ProcessPrimaryStart ==
  /\ UNCHANGED <<setupVars, lockVars, reentrantVars, clientVars, remote,
                 snapshots, monitorVars>>
  /\ pc = "p_start"
  /\ UNCHANGED <<persisted, env, rawStage, stage, reportData, fetches, sleeps,
                 remoteFailed, lastFetched, auditVars, result, written,
                 deliveries>>
  /\ IF getConfigError(config, sheetsDown) # ""
     THEN /\ Throw(getConfigError(config, sheetsDown))
          /\ UNCHANGED <<caller, reportKind, attempt, maxRetries>>
     ELSE /\ pc' = "fetch"
          /\ caller' = "primary"
          /\ reportKind' = "primary"
          /\ attempt' = 1
          /\ maxRetries' = WebhookMaxRetries
          /\ UNCHANGED err

\* Faulty variant of ProcessPrimaryWrite: the report is persisted before its
\* emptiness is examined.
ProcessPrimaryWrite_WritesFirst ==
  /\ UNCHANGED <<setupVars, lockVars, reentrantVars, clientVars, remote,
                 monitorVars>>
  /\ pc = "p_write"
  /\ UNCHANGED <<audit, env, rawStage, stage, retryVars, auditVars, result,
                 deliveries>>
  /\ IF sheetsDown
     THEN Throw(SheetError) /\ UNCHANGED <<sheets, written, snapshots>>
     ELSE LET w == writeGridDataToSheet(sheets, SHEET_PRIMARY_REPORT, reportData)
          IN /\ sheets' = w.sheets
             /\ written' = written \cup {SHEET_PRIMARY_REPORT}
             /\ snapshots' = Append(snapshots, reportData)
             /\ IF w.threw THEN Throw(RangeError)
                ELSE IF Len(reportData.rows) = 0
                THEN Throw("Primary report has no data after waiting")
                ELSE pc' = "p_extract" /\ UNCHANGED err

\* processPrimaryReportData: fatal when empty, else persist the report.
ProcessPrimaryWrite ==
  /\ UNCHANGED <<setupVars, lockVars, reentrantVars, clientVars, remote,
                 monitorVars>>
  /\ pc = "p_write"
  /\ UNCHANGED <<audit, env, rawStage, stage, retryVars, auditVars, result,
                 deliveries>>
  /\ IF sheetsDown
     THEN Throw(SheetError) /\ UNCHANGED <<sheets, written, snapshots>>
     ELSE IF Len(reportData.rows) = 0
     THEN /\ Throw("Primary report has no data after waiting")
          /\ UNCHANGED <<sheets, written, snapshots>>
     ELSE LET w == writeGridDataToSheet(sheets, SHEET_PRIMARY_REPORT, reportData)
          IN /\ sheets' = w.sheets
             /\ written' = written \cup {SHEET_PRIMARY_REPORT}
             /\ snapshots' = Append(snapshots, reportData)
             /\ IF w.threw THEN Throw(RangeError)
                ELSE pc' = "p_extract" /\ UNCHANGED err

\* processPrimaryReportData: locate LINK_URL, dedup, persist the URL list.
ProcessPrimaryExtract ==
  /\ UNCHANGED <<setupVars, lockVars, reentrantVars, clientVars, remote,
                 snapshots, monitorVars>>
  /\ pc = "p_extract"
  /\ UNCHANGED <<audit, env, rawStage, stage, retryVars, auditVars, result,
                 deliveries>>
  /\ LET linkUrlColumnIndex == findColumnIndex(reportData.headers, "LINK_URL")
     IN IF linkUrlColumnIndex = NotFound
        THEN /\ Throw("LINK_URL column not found in report")
             /\ UNCHANGED <<sheets, written>>
        ELSE IF sheetsDown
        THEN Throw(SheetError) /\ UNCHANGED <<sheets, written>>
        ELSE /\ sheets' = writeUniqueUrlsToSheet(sheets, SHEET_UNIQUE_URLS,
                            extractUniqueUrls(reportData.rows, linkUrlColumnIndex))
             /\ written' = written \cup {SHEET_UNIQUE_URLS}
             /\ pc' = "p_urls"
             /\ UNCHANGED err

\* handlePrimaryAuditComplete: getConfig, then re-read the URL list.
HandlePrimaryReadUrls ==
  /\ UNCHANGED <<setupVars, lockVars, reentrantVars, clientVars, remote,
                 snapshots, monitorVars>>
  /\ pc = "p_urls"
  /\ UNCHANGED <<persisted, env, rawStage, stage, retryVars, auditObj,
                 auditCalls, result, written, deliveries>>
  /\ IF getConfigError(config, sheetsDown) # ""
     THEN Throw(getConfigError(config, sheetsDown)) /\ UNCHANGED uniqueUrls
     ELSE IF getUniqueUrlsFromSheet(sheets).threw
     THEN Throw("Unique URLs sheet not found") /\ UNCHANGED uniqueUrls
     ELSE /\ uniqueUrls' = getUniqueUrlsFromSheet(sheets).urls
          /\ pc' = "audit_get"
          /\ UNCHANGED err

\* updateAndRunSecondaryAudit: GET /v2/web-audits/{id}.
AuditGet ==
  /\ UNCHANGED <<setupVars, lockVars, reentrantVars, clientVars, remote,
                 snapshots, monitorVars>>
  /\ pc = "audit_get"
  /\ UNCHANGED <<persisted, env, rawStage, stage, retryVars, uniqueUrls,
                 result, written, deliveries>>
  /\ \E code \in Statuses :
       /\ auditCalls' = Append(auditCalls, [method |-> "GET", code |-> code])
       /\ IF code >= 300
          THEN Throw("Audit fetch failed") /\ UNCHANGED auditObj
          ELSE auditObj' = audit /\ pc' = "audit_put" /\ UNCHANGED err

\* Faulty variant of AuditPayload: the new URLs are appended to the old.
AuditPayload_Appends(obj, urls) ==
  [obj EXCEPT !.startingUrls = obj.startingUrls \o urls,
              !.limit = Len(obj.startingUrls) + Len(urls)]

\* The body of the PUT: the fetched audit with startingUrls and limit set.
AuditPayload(obj, urls) ==
  [obj EXCEPT !.startingUrls = urls, !.limit = Len(urls)]

\* Faulty variant of AuditPut: a refused PUT is not examined and the run
\* request follows.
AuditPut_IgnoresFailure ==
  /\ UNCHANGED <<setupVars, lockVars, reentrantVars, clientVars, remote,
                 snapshots, monitorVars>>
  /\ pc = "audit_put"
  /\ UNCHANGED <<sheets, env, rawStage, stage, retryVars, uniqueUrls,
                 auditObj, result, written, deliveries>>
  /\ \E code \in Statuses :
       /\ auditCalls' = Append(auditCalls, [method |-> "PUT", code |-> code])
       /\ audit' = IF code >= 300 THEN audit ELSE AuditPayload(auditObj, uniqueUrls)
       /\ pc' = "audit_run"
       /\ UNCHANGED err

\* updateAndRunSecondaryAudit: PUT /v2/web-audits/{id}; the remote stores
\* the body when it answers below 300.
AuditPut ==
  /\ UNCHANGED <<setupVars, lockVars, reentrantVars, clientVars, remote,
                 snapshots, monitorVars>>
  /\ pc = "audit_put"
  /\ UNCHANGED <<sheets, env, rawStage, stage, retryVars, uniqueUrls,
                 auditObj, result, written, deliveries>>
  /\ \E code \in Statuses :
       /\ auditCalls' = Append(auditCalls, [method |-> "PUT", code |-> code])
       /\ IF code >= 300
          THEN Throw("Audit update failed") /\ UNCHANGED audit
          ELSE /\ audit' = AuditPayload(auditObj, uniqueUrls)
               /\ pc' = "audit_run"
               /\ UNCHANGED err

\* Faulty variant of AuditRun: a refused run is reported with the message of
\* a refused update.
AuditRun_ReportsUpdate ==
  /\ UNCHANGED <<setupVars, lockVars, reentrantVars, clientVars, remote,
                 snapshots, monitorVars>>
  /\ pc = "audit_run"
  /\ UNCHANGED <<persisted, env, rawStage, stage, retryVars, uniqueUrls,
                 auditObj, written, deliveries>>
  /\ \E code \in Statuses :
       /\ auditCalls' = Append(auditCalls, [method |-> "RUN", code |-> code])
       /\ IF code >= 300
          THEN Throw("Audit update failed") /\ UNCHANGED result
          ELSE IF sheetsDown
          THEN Throw(SheetError) /\ UNCHANGED result
          ELSE /\ pc' = "done"
               /\ result' = TextOutput(<<"OK">>)
               /\ UNCHANGED err

\* updateAndRunSecondaryAudit: POST /v2/web-audits/{id}/runs, then the
\* closing log of handlePrimaryAuditComplete and the 'OK' of the router.
AuditRun ==
  /\ UNCHANGED <<setupVars, lockVars, reentrantVars, clientVars, remote,
                 snapshots, monitorVars>>
  /\ pc = "audit_run"
  /\ UNCHANGED <<persisted, env, rawStage, stage, retryVars, uniqueUrls,
                 auditObj, written, deliveries>>
  /\ \E code \in Statuses :
       /\ auditCalls' = Append(auditCalls, [method |-> "RUN", code |-> code])
       /\ IF code >= 300
          THEN Throw("Audit run failed") /\ UNCHANGED result
          ELSE IF sheetsDown
          THEN Throw(SheetError) /\ UNCHANGED result
          ELSE /\ pc' = "done"
               /\ result' = TextOutput(<<"OK">>)
               /\ UNCHANGED err

\* ---------------------------------------------------------- secondary stage
\* handleSecondaryAuditComplete: getConfig, log, call the retry engine.
HandleSecondaryStart ==
  /\ UNCHANGED <<setupVars, lockVars, reentrantVars, clientVars, remote,
                 snapshots, monitorVars>>
  /\ pc = "s_start"
  /\ UNCHANGED <<persisted, env, rawStage, stage, reportData, fetches, sleeps,
                 remoteFailed, lastFetched, auditVars, result, written,
                 deliveries>>
  /\ IF getConfigError(config, sheetsDown) # ""
     THEN /\ Throw(getConfigError(config, sheetsDown))
          /\ UNCHANGED <<caller, reportKind, attempt, maxRetries>>
     ELSE /\ pc' = "fetch"
          /\ caller' = "secondary"
          /\ reportKind' = "broken"
          /\ attempt' = 1
          /\ maxRetries' = WebhookMaxRetries
          /\ UNCHANGED err

\* handleSecondaryAuditComplete: warn when empty, persist the broken report.
HandleSecondaryWriteBroken ==
  /\ UNCHANGED <<setupVars, lockVars, reentrantVars, clientVars, remote,
                 snapshots, monitorVars>>
  /\ pc = "s_write"
  /\ UNCHANGED <<audit, env, rawStage, stage, retryVars, auditVars, result,
                 deliveries>>
  /\ IF sheetsDown
     THEN Throw(SheetError) /\ UNCHANGED <<sheets, written>>
     ELSE LET w == writeGridDataToSheet(sheets, SHEET_BROKEN_REPORT, reportData)
          IN /\ sheets' = w.sheets
             /\ written' = written \cup {SHEET_BROKEN_REPORT}
             /\ IF w.threw THEN Throw(RangeError)
                ELSE pc' = "s_join" /\ UNCHANGED err

\* Faulty variant of HandleSecondaryJoin: a missing Primary_Report table is
\* an error.
HandleSecondaryJoin_RequiresPrimary ==
  /\ UNCHANGED <<setupVars, lockVars, reentrantVars, clientVars, remote,
                 snapshots, monitorVars>>
  /\ pc = "s_join"
  /\ UNCHANGED <<audit, env, rawStage, stage, retryVars, auditVars,
                 deliveries>>
  /\ IF sheetsDown
     THEN Throw(SheetError) /\ UNCHANGED <<sheets, written, result>>
     ELSE IF ~sheets[SHEET_PRIMARY_REPORT].exists
     THEN Throw("Primary report sheet not found")
          /\ UNCHANGED <<sheets, written, result>>
     ELSE LET primaryData == readSheetAsGridData(sheets, SHEET_PRIMARY_REPORT)
              joinedData == joinReports(primaryData, reportData)
              w == writeGridDataToSheet(sheets, SHEET_FINAL_REPORT, joinedData)
          IN /\ sheets' = w.sheets
             /\ written' = written \cup {SHEET_FINAL_REPORT}
             /\ IF w.threw THEN Throw(RangeError) /\ UNCHANGED result
                ELSE /\ pc' = "done"
                     /\ result' = TextOutput(<<"OK">>)
                     /\ UNCHANGED err

\* Faulty variant of HandleSecondaryJoin: the join takes the report of the
\* earliest primary-stage invocation on record instead of the table.
HandleSecondaryJoin_FirstSnapshot ==
  /\ UNCHANGED <<setupVars, lockVars, reentrantVars, clientVars, remote,
                 snapshots, monitorVars>>
  /\ pc = "s_join"
  /\ UNCHANGED <<audit, env, rawStage, stage, retryVars, auditVars,
                 deliveries>>
  /\ IF sheetsDown
     THEN Throw(SheetError) /\ UNCHANGED <<sheets, written, result>>
     ELSE LET primaryData == IF snapshots = <<>>
                             THEN readSheetAsGridData(sheets, SHEET_PRIMARY_REPORT)
                             ELSE snapshots[1]
              joinedData == joinReports(primaryData, reportData)
              w == writeGridDataToSheet(sheets, SHEET_FINAL_REPORT, joinedData)
          IN /\ sheets' = w.sheets
             /\ written' = written \cup {SHEET_FINAL_REPORT}
             /\ IF w.threw THEN Throw(RangeError) /\ UNCHANGED result
                ELSE /\ pc' = "done"
                     /\ result' = TextOutput(<<"OK">>)
                     /\ UNCHANGED err

\* handleSecondaryAuditComplete: read back the primary report, join, persist
\* the final report, log, and the 'OK' of the router.
HandleSecondaryJoin ==
  /\ UNCHANGED <<setupVars, lockVars, reentrantVars, clientVars, remote,
                 snapshots, monitorVars>>
  /\ pc = "s_join"
  /\ UNCHANGED <<audit, env, rawStage, stage, retryVars, auditVars,
                 deliveries>>
  /\ IF sheetsDown
     THEN Throw(SheetError) /\ UNCHANGED <<sheets, written, result>>
     ELSE LET primaryData == readSheetAsGridData(sheets, SHEET_PRIMARY_REPORT)
              joinedData == joinReports(primaryData, reportData)
              w == writeGridDataToSheet(sheets, SHEET_FINAL_REPORT, joinedData)
          IN /\ sheets' = w.sheets
             /\ written' = written \cup {SHEET_FINAL_REPORT}
             /\ IF w.threw THEN Throw(RangeError) /\ UNCHANGED result
                ELSE /\ pc' = "done"
                     /\ result' = TextOutput(<<"OK">>)
                     /\ UNCHANGED err

\* ------------------------------------------------------------- environment
\* The spreadsheet service starts or stops failing (quota, timeout, outage).
SheetServiceFails ==
  /\ UNCHANGED <<setupVars, lockVars, reentrantVars, clientVars, remote,
                 snapshots, monitorVars>>
  /\ ~sheetsDown
  /\ sheetsDown' = TRUE
  /\ UNCHANGED <<config, persisted, pc, rawStage, stage, retryVars, auditVars,
                 err, result, written, deliveries>>

SheetServiceRecovers ==
  /\ UNCHANGED <<setupVars, lockVars, reentrantVars, clientVars, remote,
                 snapshots, monitorVars>>
  /\ sheetsDown
  /\ sheetsDown' = FALSE
  /\ UNCHANGED <<config, persisted, pc, rawStage, stage, retryVars, auditVars,
                 err, result, written, deliveries>>

\* ------------------------------------------------------------ setup wizard
\* getExistingConfig(): the settings of the Config sheet with a truthy value,
\* nothing when there is no Config sheet.
getExistingConfig(cfg) ==
  IF cfg.hasSheet THEN cfg
  ELSE [hasSheet |-> FALSE, OP_API_KEY |-> "", PRIMARY_REPORT_ID |-> "",
        BROKEN_REPORT_ID |-> "", SECONDARY_AUDIT_ID |-> ""]

\* saveInitialConfig(apiKey, ...): create the Config sheet if absent and
\* rewrite A2:B11, the three resource IDs from the existing values or ''.
saveInitialConfig(cfg, apiKey) ==
  [hasSheet |-> TRUE,
   OP_API_KEY |-> apiKey,
   PRIMARY_REPORT_ID |-> getExistingConfig(cfg).PRIMARY_REPORT_ID,
   BROKEN_REPORT_ID |-> getExistingConfig(cfg).BROKEN_REPORT_ID,
   SECONDARY_AUDIT_ID |-> getExistingConfig(cfg).SECONDARY_AUDIT_ID]

\* getConfigForSetup(): the settings read back from A2:B10.
getConfigForSetup(cfg) ==
  [API_KEY |-> cfg.OP_API_KEY,
   PRIMARY_REPORT_ID |-> cfg.PRIMARY_REPORT_ID,
   BROKEN_REPORT_ID |-> cfg.BROKEN_REPORT_ID,
   SECONDARY_AUDIT_ID |-> cfg.SECONDARY_AUDIT_ID]

\* collectSetupInputs(): the API key is the existing one or the one entered;
\* saveInitialConfig, then proceedWithAutomatedSetup begins.
CollectSetupInputs ==
  /\ setupPc \in {"idle", "complete", "failed"}
  /\ setupRuns < MaxSetupRuns
  /\ setupRuns' = setupRuns + 1
  /\ config' = saveInitialConfig(config,
                  IF getExistingConfig(config).OP_API_KEY # ""
                  THEN getExistingConfig(config).OP_API_KEY ELSE "key")
  /\ setupPc' = "proceed"
  /\ setupConfig' = NoSetupConfig
  /\ setupResults' = [k \in Kinds |-> NoCall]
  /\ IF webhookBaseUrl # "" THEN UNCHANGED webhookBaseUrl
     ELSE webhookBaseUrl' \in WebAppUrls
  /\ UNCHANGED <<routerVars, lockVars, remoteCreated, calls, setupDone, webhooks>>

\* proceedWithAutomatedSetup: getConfigForSetup, fetchAuditDetails of the
\* primary audit.
ProceedWithAutomatedSetup ==
  /\ setupPc = "proceed"
  /\ setupConfig' = getConfigForSetup(config)
  /\ \E code \in Statuses :
       setupPc' = IF code >= 300 THEN "failed" ELSE "primary_report"
  /\ UNCHANGED <<config, routerVars, lockVars, setupResults, remoteCreated,
                 calls, setupRuns, setupDone, webhookBaseUrl, webhooks>>

\* Faulty variant of CreateOrGet: the configured ID is not looked at and a
\* create request is always sent.
CreateOrGet_AlwaysCreates(kind, lookups, next) ==
  LET configured == setupConfig[ConfigKey(kind)] IN
  /\ UNCHANGED <<config, routerVars, lockVars, setupConfig, setupRuns, setupDone,
                 webhookBaseUrl, webhooks>>
  /\ \E code \in Statuses :
       IF code >= 300
       THEN /\ setupPc' = "failed"
            /\ calls' = [calls EXCEPT ![kind] =
                           Append(@, [configured |-> configured, returned |-> FALSE,
                                      id |-> "", created |-> FALSE,
                                      posted |-> TRUE])]
            /\ UNCHANGED <<setupResults, remoteCreated>>
       ELSE /\ remoteCreated' = [remoteCreated EXCEPT ![kind] = @ + 1]
            /\ setupResults' = [setupResults EXCEPT
                   ![kind] = [id |-> NewRemoteId(remoteCreated), created |-> TRUE]]
            /\ calls' = [calls EXCEPT ![kind] =
                           Append(@, [configured |-> configured, returned |-> TRUE,
                                      id |-> NewRemoteId(remoteCreated),
                                      created |-> TRUE, posted |-> TRUE])]
            /\ setupPc' = next

\* The body shared by the three create-or-get functions: the configured ID
\* with created = false, else one create request (after `lookups` fetches
\* of audit details); a status of 300 or more raises.
CreateOrGet(kind, lookups, next) ==
  LET configured == setupConfig[ConfigKey(kind)] IN
  /\ UNCHANGED <<config, routerVars, lockVars, setupConfig, setupRuns, setupDone,
                 webhookBaseUrl, webhooks>>
  /\ IF configured # ""
     THEN /\ setupResults' = [setupResults EXCEPT
                                ![kind] = [id |-> configured, created |-> FALSE]]
          /\ calls' = [calls EXCEPT ![kind] =
                         Append(@, [configured |-> configured, returned |-> TRUE,
                                    id |-> configured, created |-> FALSE,
                                    posted |-> FALSE])]
          /\ setupPc' = next
          /\ UNCHANGED remoteCreated
     ELSE \E fetched \in [1..lookups -> Statuses], code \in Statuses :
            IF \E i \in 1..lookups : fetched[i] >= 300
            THEN /\ setupPc' = "failed"
                 /\ calls' = [calls EXCEPT ![kind] =
                                Append(@, [configured |-> "", returned |-> FALSE,
                                           id |-> "", created |-> FALSE,
                                           posted |-> FALSE])]
                 /\ UNCHANGED <<setupResults, remoteCreated>>
            ELSE IF code >= 300
            THEN /\ setupPc' = "failed"
                 /\ calls' = [calls EXCEPT ![kind] =
                                Append(@, [configured |-> "", returned |-> FALSE,
                                           id |-> "", created |-> FALSE,
                                           posted |-> TRUE])]
                 /\ UNCHANGED <<setupResults, remoteCreated>>
            ELSE /\ remoteCreated' = [remoteCreated EXCEPT ![kind] = @ + 1]
                 /\ setupResults' = [setupResults EXCEPT
                        ![kind] = [id |-> NewRemoteId(remoteCreated), created |-> TRUE]]
                 /\ calls' = [calls EXCEPT ![kind] =
                                Append(@, [configured |-> "", returned |-> TRUE,
                                           id |-> NewRemoteId(remoteCreated),
                                           created |-> TRUE, posted |-> TRUE])]
                 /\ setupPc' = next

createOrGetPrimaryReport ==
  /\ setupPc = "primary_report"
  /\ CreateOrGet("primaryReport", 0, "secondary_audit")

createOrGetSecondaryAudit ==
  /\ setupPc = "secondary_audit"
  /\ CreateOrGet("secondaryAudit", 0, "secondary_report")

\* createOrGetSecondaryReport fetches the secondary audit before creating.
createOrGetSecondaryReport ==
  /\ setupPc = "secondary_report"
  /\ CreateOrGet("secondaryReport", 1, "update_config")

\* updateConfigWithIds: B5, B6, B7 of the Config sheet.
updateConfigWithIds ==
  /\ setupPc = "update_config"
  /\ config' = [config EXCEPT
                  !.SECONDARY_AUDIT_ID = setupResults["secondaryAudit"].id,
                  !.PRIMARY_REPORT_ID = setupResults["primaryReport"].id,
                  !.BROKEN_REPORT_ID = setupResults["secondaryReport"].id]
  /\ setupPc' = "webhooks"
  /\ UNCHANGED <<routerVars, lockVars, setupConfig, setupResults, remoteCreated,
                 calls, setupRuns, setupDone, webhookBaseUrl, webhooks>>

\* The remote after the requests of configureWebhooks answered with codes
\* (GET and PUT of the primary audit, GET and PUT of the secondary audit):
\* a PUT is sent only when every earlier request succeeded, and stores the
\* audit with its options.webHookUrl set.
WebhooksAfter(hooks, codes, primaryAuditId, secondaryAuditId, base, primarySuffix, secondarySuffix) ==
  LET first == IF codes[1] < 300 /\ codes[2] < 300
               THEN [hooks EXCEPT ![primaryAuditId] = <<base, primarySuffix>>]
               ELSE hooks
  IN IF \A i \in 1..4 : codes[i] < 300
     THEN [first EXCEPT ![secondaryAuditId] = <<base, secondarySuffix>>]
     ELSE first

\* Faulty variant of configureWebhooks: both audits get the primary stage.
configureWebhooks_SameStage ==
  /\ setupPc = "webhooks"
  /\ \E codes \in [1..4 -> Statuses] :
       /\ webhooks' = WebhooksAfter(webhooks, codes, PrimaryAuditId,
                                    setupResults["secondaryAudit"].id,
                                    webhookBaseUrl, "?stage=primary",
                                    "?stage=primary")
       /\ IF \E i \in 1..4 : codes[i] >= 300
          THEN setupPc' = "failed" /\ UNCHANGED setupDone
          ELSE /\ setupPc' = "complete"
               /\ setupDone' =
                    IF setupDone.done THEN setupDone
                    ELSE [done |-> TRUE, run |-> setupRuns,
                          ids |-> [k \in Kinds |-> config[ConfigKey(k)]],
                          created |-> remoteCreated]
  /\ UNCHANGED <<config, routerVars, lockVars, setupConfig, setupResults,
                 remoteCreated, calls, setupRuns, webhookBaseUrl>>

\* configureWebhooks (GET and PUT of each audit), then the end of
\* proceedWithAutomatedSetup; setupDone keeps what the first completed run
\* left behind.
configureWebhooks ==
  /\ setupPc = "webhooks"
  /\ \E codes \in [1..4 -> Statuses] :
       /\ webhooks' = WebhooksAfter(webhooks, codes, PrimaryAuditId,
                                    setupResults["secondaryAudit"].id,
                                    webhookBaseUrl, "?stage=primary",
                                    "?stage=secondary")
       /\ IF \E i \in 1..4 : codes[i] >= 300
          THEN setupPc' = "failed" /\ UNCHANGED setupDone
          ELSE /\ setupPc' = "complete"
               /\ setupDone' =
                    IF setupDone.done THEN setupDone
                    ELSE [done |-> TRUE, run |-> setupRuns,
                          ids |-> [k \in Kinds |-> config[ConfigKey(k)]],
                          created |-> remoteCreated]
  /\ UNCHANGED <<config, routerVars, lockVars, setupConfig, setupResults,
                 remoteCreated, calls, setupRuns, webhookBaseUrl>>

\* ---------------------------------------------------- locking doPost wrapper
\* The customer sheet's doPost(e): LockService.getScriptLock(), tryLock(30000),
\* the library call, the catch and the finally.  Each of Procs is one
\* execution slot of the deployment; the library call is the router, which
\* takes time and ends with a text output or an exception.
SkippedDuplicate == TextOutput(<<"Processing in progress, skipped duplicate">>)

RouterOutcomes ==
  {TextOutput(<<"OK">>),
   TextOutput(<<"Error: ", "Unknown stage">>),
   TextOutput(<<"Missing stage parameter">>),
   Thrown(SheetError)}

\* A webhook delivery starts an execution of doPost.
DoPostStart(p) ==
  /\ wpc[p] \in {"idle", "returned"}
  /\ invocations < MaxInvocations
  /\ invocations' = invocations + 1
  /\ wpc' = [wpc EXCEPT ![p] = "trylock"]
  /\ hasLock' = [hasLock EXCEPT ![p] = FALSE]
  /\ response' = [response EXCEPT ![p] = NoResult]
  /\ routerCalled' = [routerCalled EXCEPT ![p] = FALSE]
  /\ \E s \in {"primary", "secondary"} :
       deliveryStage' = [deliveryStage EXCEPT ![p] = s]
  /\ UNCHANGED <<config, routerVars, setupVars, lockHolder>>

\* lock.tryLock(30000) answers true: the lock was free or became free.
TryLockAcquires(p) ==
  /\ wpc[p] = "trylock"
  /\ lockHolder = 0
  /\ lockHolder' = p
  /\ hasLock' = [hasLock EXCEPT ![p] = TRUE]
  /\ wpc' = [wpc EXCEPT ![p] = "call"]
  /\ UNCHANGED <<config, routerVars, setupVars, response, routerCalled,
                 invocations, deliveryStage>>

\* Faulty variant of TryLockTimesOut: hasLock is not examined and the
\* library call follows.
TryLockTimesOut_CallsRouter(p) ==
  /\ wpc[p] = "trylock"
  /\ lockHolder \notin {0, p}
  /\ wpc' = [wpc EXCEPT ![p] = "call"]
  /\ UNCHANGED <<config, routerVars, setupVars, hasLock, lockHolder, response,
                 routerCalled, invocations, deliveryStage>>

\* lock.tryLock(30000) answers false after 30 seconds of the lock being
\* held by another execution: the early return, with the finally pending.
TryLockTimesOut(p) ==
  /\ wpc[p] = "trylock"
  /\ lockHolder \notin {0, p}
  /\ response' = [response EXCEPT ![p] = SkippedDuplicate]
  /\ wpc' = [wpc EXCEPT ![p] = "finally"]
  /\ UNCHANGED <<config, routerVars, setupVars, hasLock, lockHolder,
                 routerCalled, invocations, deliveryStage>>

\* return ObservePointTools.doPost(e): the router begins.
RouterCall(p) ==
  /\ wpc[p] = "call"
  /\ wpc' = [wpc EXCEPT ![p] = "router"]
  /\ routerCalled' = [routerCalled EXCEPT ![p] = TRUE]
  /\ UNCHANGED <<config, routerVars, setupVars, hasLock, lockHolder, response,
                 invocations, deliveryStage>>

\* The router ends: its text output is the wrapper's, an exception is turned
\* into 'Error: ' + err.message by the catch.
RouterReturn(p) ==
  /\ wpc[p] = "router"
  /\ \E out \in RouterOutcomes :
       response' = [response EXCEPT ![p] =
                      IF out.kind = "throw"
                      THEN TextOutput(<<"Error: ", out.body[1]>>) ELSE out]
  /\ wpc' = [wpc EXCEPT ![p] = "finally"]
  /\ UNCHANGED <<config, routerVars, setupVars, hasLock, lockHolder,
                 routerCalled, invocations, deliveryStage>>

\* Faulty variant of releaseLock: the lock is freed whoever holds it.
releaseLock_Any(holder, p) == 0

\* lock.releaseLock() by execution p: it has no effect unless p holds the
\* lock.
releaseLock(holder, p) == IF holder = p THEN 0 ELSE holder

\* Faulty variant of WrapperFinally: the release stands at the end of the
\* try block, so it is skipped when the router threw.
WrapperFinally_SkipsAfterThrow(p) ==
  /\ wpc[p] = "finally"
  /\ lockHolder' = IF response[p] = TextOutput(<<"Error: ", SheetError>>)
                   THEN lockHolder ELSE releaseLock(lockHolder, p)
  /\ wpc' = [wpc EXCEPT ![p] = "returned"]
  /\ UNCHANGED <<config, routerVars, setupVars, hasLock, response,
                 routerCalled, invocations, deliveryStage>>

\* The finally block, then the wrapper returns.
WrapperFinally(p) ==
  /\ wpc[p] = "finally"
  /\ lockHolder' = releaseLock(lockHolder, p)
  /\ wpc' = [wpc EXCEPT ![p] = "returned"]
  /\ UNCHANGED <<config, routerVars, setupVars, hasLock, response,
                 routerCalled, invocations, deliveryStage>>

\* ---------------------------------------------------------- specifications
Next ==
  \/ \E raw \in StageParams : DoPostHandler(raw)
  \/ ProcessPrimaryStart
  \/ FetchAttempt
  \/ ProcessPrimaryWrite
  \/ ProcessPrimaryExtract
  \/ HandlePrimaryReadUrls
  \/ AuditGet
  \/ AuditPut
  \/ AuditRun
  \/ HandleSecondaryStart
  \/ HandleSecondaryWriteBroken
  \/ HandleSecondaryJoin
  \/ CatchError
  \/ SheetServiceFails
  \/ SheetServiceRecovers

\* Webhook deliveries handled one after the other.
Spec == Init /\ [][Next]_vars

\* fetchGridReportDataWithRetry(reportId, config, maxRetries, waitSeconds)
\* called on its own with maxRetries in 1..MaxAttempts.
InitRetry ==
  /\ SetupIdle
  /\ LockIdle
  /\ MonitorIdle
  /\ remote = NoRemote
  /\ ReentrantIdle
  /\ ClientIdle
  /\ snapshots = <<>>
  /\ config = GoodConfig
  /\ sheetsDown = FALSE
  /\ sheets = NoSheets
  /\ audit = InitialAudit
  /\ pc = "fetch"
  /\ deliveries = 0
  /\ rawStage = ""
  /\ stage = ""
  /\ caller = "retry"
  /\ reportKind \in {"primary", "broken"}
  /\ attempt = 1
  /\ maxRetries \in 1..MaxAttempts
  /\ reportData = EmptyReport
  /\ uniqueUrls = <<>>
  /\ auditObj = InitialAudit
  /\ fetches = [k \in {"primary", "broken"} |-> 0]
  /\ sleeps = 0
  /\ remoteFailed = FALSE
  /\ lastFetched = EmptyReport
  /\ auditCalls = <<>>
  /\ err = ""
  /\ result = NoResult
  /\ written = {}

NextRetry == FetchAttempt \/ SheetServiceFails \/ SheetServiceRecovers

SpecRetry == InitRetry /\ [][NextRetry]_vars

\* ---------------------------------------------------------- sitemap monitor
\* A sitemap entry is a URL with its <lastmod>: 0 when the element is
\* missing, else a date, kept as a day number.  A sitemap lists a URL once.
SitemapUrlNames == {"https://site/p1", "https://site/p2"}
Lastmods == {0, 2, 3}
NoRepeatedUrl(entries) ==
  \A i, j \in 1..Len(entries) : entries[i].url = entries[j].url => i = j
Sitemaps ==
  {sm \in SeqsUpTo([url : SitemapUrlNames, lastmod : Lastmods], MaxUrls) :
     NoRepeatedUrl(sm)}

\* getTrackedUrls: the lastmod string of a tracked row.  A date string
\* written to the sheet is held as a date, which getValues returns as a Date
\* at midnight in the spreadsheet's time zone; toISOString().split('T')[0]
\* is its UTC date, the day before when the time zone is east of UTC.
LastmodString(cell, east) ==
  IF cell = 0 THEN 0 ELSE IF east THEN cell - 1 ELSE cell

\* getTrackedUrls: trackedUrls[url].row, as an index into the data rows; a
\* later row with the same URL replaces an earlier one; 0 when not tracked.
RECURSIVE TrackedRow(_, _, _)
TrackedRow(rows, url, i) ==
  IF i = 0 THEN 0
  ELSE IF rows[i].url = url THEN i ELSE TrackedRow(rows, url, i - 1)

IsTracked(rows, url) == TrackedRow(rows, url, Len(rows)) # 0

\* The test identifyNewUrls makes on a tracked URL: both lastmods present
\* and different.
LastmodChanged(entry, rows, east) ==
  LET mine == LastmodString(rows[TrackedRow(rows, entry.url, Len(rows))].lastmod, east)
  IN entry.lastmod # 0 /\ mine # 0 /\ entry.lastmod # mine

identifyNewUrls(sitemapUrls, rows, east) ==
  [newUrls |-> SelectSeq(sitemapUrls, LAMBDA e : ~IsTracked(rows, e.url)),
   updatedUrls |-> SelectSeq(sitemapUrls,
                     LAMBDA e : IsTracked(rows, e.url) /\ LastmodChanged(e, rows, east))]

\* updateTrackingSheet: a tracked URL gets the sitemap's lastmod and the
\* status 'Updated' (the sitemap has a lastmod and it is not the tracked
\* one) or 'Tracked' in its row; the untracked ones are appended
\* after the loop with the status 'New'.
RECURSIVE UpdateRows(_, _, _, _, _)
UpdateRows(entries, trackedUrls, sheetRows, updates, east) ==
  IF entries = <<>> THEN sheetRows \o updates
  ELSE LET e == Head(entries)
           row == TrackedRow(trackedUrls, e.url, Len(trackedUrls))
       IN IF row = 0
          THEN UpdateRows(Tail(entries), trackedUrls, sheetRows,
                          Append(updates, [url |-> e.url, lastmod |-> e.lastmod,
                                           status |-> "New"]), east)
          ELSE UpdateRows(Tail(entries), trackedUrls,
                          [sheetRows EXCEPT ![row] =
                             [url |-> @.url, lastmod |-> e.lastmod,
                              status |-> IF e.lastmod # 0 /\ e.lastmod #
                                              LastmodString(trackedUrls[row].lastmod, east)
                                         THEN "Updated" ELSE "Tracked"]],
                          updates, east)

updateTrackingSheet(sitemapUrls, trackedUrls, east) ==
  UpdateRows(sitemapUrls, trackedUrls, trackedUrls, <<>>, east)

\* updateAuditWithChangedUrls: the audit after the PUT, the fetched audit
\* with the changed URLs as starting URLs and their number as limit (the
\* read-only fields deleted from the body stay as the server holds them; no
\* page of the sitemap is the sitemap's own URL).
ChangedUrlsPayload(obj, changedUrls) ==
  [obj EXCEPT !.startingUrls = [i \in 1..Len(changedUrls) |-> changedUrls[i].url],
              !.limit = Len(changedUrls)]

\* runMonitor(): fetch and parse the sitemap, read the tracking sheet,
\* identify, update the tracking sheet, then (only with new or updated
\* URLs) GET and PUT the audit and, with AUTO_RUN_AUDIT, start a run.  A
\* failed request raises and ends the run: failAt is the request that
\* fails, 0 (or one that is never sent) when none does.
RunMonitor ==
  /\ monitorRuns < MaxMonitorRuns
  /\ monitorRuns' = monitorRuns + 1
  /\ \E fetchCode \in Statuses, failAt \in 0..3 :
       LET east == monitorSettings.timeZoneEast
           changes == identifyNewUrls(sitemap, tracking, east)
           changedUrls == changes.newUrls \o changes.updatedUrls
           wanted == IF changedUrls = <<>> THEN <<>>
                     ELSE IF monitorSettings.AUTO_RUN_AUDIT
                     THEN <<"GET", "PUT", "RUN">> ELSE <<"GET", "PUT">>
           failed == failAt \in 1..Len(wanted)
           sent == IF failed THEN failAt ELSE Len(wanted)
       IN IF fetchCode # 200
          THEN /\ monitorResult' = [NoMonitorResult EXCEPT !.seen = sitemap,
                                                           !.threw = TRUE]
               /\ UNCHANGED <<tracking, audit>>
          ELSE /\ tracking' = updateTrackingSheet(sitemap, tracking, east)
               /\ audit' = IF sent >= 2 /\ failAt # 2
                            THEN ChangedUrlsPayload(audit, changedUrls) ELSE audit
               /\ monitorResult' =
                    [seen |-> sitemap, fetched |-> TRUE,
                     threw |-> failed,
                     requests |-> SubSeq(wanted, 1, sent),
                     newUrls |-> Len(changes.newUrls),
                     updatedUrls |-> Len(changes.updatedUrls),
                     auditUpdated |-> sent >= 2 /\ failAt # 2,
                     auditRun |-> sent = 3 /\ failAt # 3]
  /\ UNCHANGED <<config, sheetsDown, sheets, pc, rawStage, stage, retryVars,
                 auditVars, err, result, written, deliveries, setupVars,
                 lockVars, reentrantVars, clientVars, remote, snapshots, sitemap, monitorSettings>>

\* The site publishes another sitemap (one that no run sees is of no
\* account, so it changes only between a run that has looked at the present
\* one and a later run).
SitemapChanges ==
  /\ monitorRuns > 0
  /\ monitorRuns < MaxMonitorRuns
  /\ monitorResult.seen = sitemap
  /\ \E sm \in Sitemaps : sm # sitemap /\ sitemap' = sm
  /\ UNCHANGED <<config, sheetsDown, persisted, pc, rawStage, stage, retryVars,
                 auditVars, err, result, written, deliveries, setupVars,
                 lockVars, reentrantVars, clientVars, remote, snapshots, tracking, monitorSettings,
                 monitorResult,
                 monitorRuns>>

InitSitemap ==
  /\ SetupIdle
  /\ LockIdle
  /\ remote = NoRemote
  /\ ReentrantIdle
  /\ ClientIdle
  /\ snapshots = <<>>
  /\ sitemap \in Sitemaps
  /\ tracking = <<>>
  /\ monitorSettings \in [AUTO_RUN_AUDIT : BOOLEAN, timeZoneEast : BOOLEAN]
  /\ monitorResult = NoMonitorResult
  /\ monitorRuns = 0
  /\ config = GoodConfig
  /\ sheetsDown = FALSE
  /\ sheets = NoSheets
  /\ audit = InitialAudit
  /\ pc = "idle"
  /\ deliveries = 0
  /\ InitLocals

NextSitemap == RunMonitor \/ SitemapChanges

SpecSitemap == InitSitemap /\ [][NextSitemap]_vars

\* ------------------------------------------------------------ re-entrancy
\* Two stage=primary invocations of the pipeline on one spreadsheet and one
\* secondary audit, each with its own locals, stepping between their
\* spreadsheet and remote calls; every call succeeds.  With serialized, the
\* caller's lock lets an invocation start only when no other is under way.
ReentrantFrame ==
  <<env, pc, rawStage, stage, retryVars, auditVars, err, result, written,
    deliveries, setupVars, lockVars, clientVars, remote, monitorVars,
    serialized>>

\* Faulty variant of ReentrantStart: the caller takes no lock.
ReentrantStart_NoLock(i) ==
  /\ workers[i].pc = "idle"
  /\ workers' = [workers EXCEPT ![i].pc = "fetch"]
  /\ UNCHANGED <<ReentrantFrame, persisted, snapshots>>

\* doPost to doPostHandler to handlePrimaryAuditComplete.
ReentrantStart(i) ==
  /\ workers[i].pc = "idle"
  /\ serialized => \A j \in Workers \ {i} : workers[j].pc \in {"idle", "done"}
  /\ workers' = [workers EXCEPT ![i].pc = "fetch"]
  /\ UNCHANGED <<ReentrantFrame, persisted, snapshots>>

\* processPrimaryReportData: the fetch; no rows is fatal.
ReentrantFetch(i) ==
  /\ workers[i].pc = "fetch"
  /\ \E r \in RemoteReports("primary") :
       workers' = [workers EXCEPT ![i].reportData = r,
                                  ![i].pc = IF Len(r.rows) = 0 THEN "done"
                                            ELSE "p_write"]
  /\ UNCHANGED <<ReentrantFrame, persisted, snapshots>>

\* processPrimaryReportData: persist the report.
ReentrantWrite(i) ==
  /\ workers[i].pc = "p_write"
  /\ sheets' = writeGridDataToSheet(sheets, SHEET_PRIMARY_REPORT,
                                    workers[i].reportData).sheets
  /\ snapshots' = Append(snapshots, workers[i].reportData)
  /\ workers' = [workers EXCEPT ![i].pc = "p_extract"]
  /\ UNCHANGED <<ReentrantFrame, audit>>

\* processPrimaryReportData: locate LINK_URL (fatal when absent), dedup,
\* persist the URL list.
ReentrantExtract(i) ==
  /\ workers[i].pc = "p_extract"
  /\ LET mine == workers[i].reportData
         linkUrlColumnIndex == findColumnIndex(mine.headers, "LINK_URL")
     IN IF linkUrlColumnIndex = NotFound
        THEN /\ workers' = [workers EXCEPT ![i].pc = "done"]
             /\ UNCHANGED sheets
        ELSE /\ sheets' = writeUniqueUrlsToSheet(sheets, SHEET_UNIQUE_URLS,
                            extractUniqueUrls(mine.rows, linkUrlColumnIndex))
             /\ workers' = [workers EXCEPT ![i].pc = "p_urls"]
  /\ UNCHANGED <<ReentrantFrame, audit, snapshots>>

\* handlePrimaryAuditComplete: re-read the URL list from the table.
ReentrantReadUrls(i) ==
  /\ workers[i].pc = "p_urls"
  /\ workers' = [workers EXCEPT
                   ![i].uniqueUrls = getUniqueUrlsFromSheet(sheets).urls,
                   ![i].pc = "audit"]
  /\ UNCHANGED <<ReentrantFrame, persisted, snapshots>>

\* updateAndRunSecondaryAudit: GET, PUT with the URL list, run.
ReentrantUpdateAudit(i) ==
  /\ workers[i].pc = "audit"
  /\ audit' = AuditPayload(audit, workers[i].uniqueUrls)
  /\ workers' = [workers EXCEPT ![i].sent = TRUE, ![i].pc = "done"]
  /\ UNCHANGED <<ReentrantFrame, sheets, snapshots>>

InitReentrant ==
  /\ SetupIdle
  /\ LockIdle
  /\ MonitorIdle
  /\ remote = NoRemote
  /\ snapshots = <<>>
  /\ config = GoodConfig
  /\ sheetsDown = FALSE
  /\ sheets = NoSheets
  /\ audit = InitialAudit
  /\ pc = "idle"
  /\ deliveries = 0
  /\ InitLocals
  /\ ClientIdle
  /\ workers = [p \in Workers |-> NoWorker]
  /\ serialized \in BOOLEAN

NextReentrant ==
  \E i \in Workers :
    \/ ReentrantStart(i)
    \/ ReentrantFetch(i)
    \/ ReentrantWrite(i)
    \/ ReentrantExtract(i)
    \/ ReentrantReadUrls(i)
    \/ ReentrantUpdateAudit(i)

SpecReentrant == InitReentrant /\ [][NextReentrant]_vars

\* ------------------------------------------------------ stage correlation
\* The tables a primary-stage invocation that ran to its end leaves behind.
PrimaryTablesAfter(report) ==
  writeUniqueUrlsToSheet(
    writeGridDataToSheet(NoSheets, SHEET_PRIMARY_REPORT, report).sheets,
    SHEET_UNIQUE_URLS,
    extractUniqueUrls(report.rows, findColumnIndex(report.headers, "LINK_URL")))

\* The primary reports of an earlier crawl.
EarlierReports ==
  {PrimaryReport(PrimaryHeaderLayouts.std, <<"u1">>),
   PrimaryReport(PrimaryHeaderLayouts.swapped, <<"u3", "u2">>)}

\* Deliveries that follow a primary-stage invocation which has run to its
\* end (its secondary audit is still running, its callback not yet
\* delivered): the tables and the audit are as that invocation left them.
InitCorrelation ==
  /\ SetupIdle
  /\ LockIdle
  /\ MonitorIdle
  /\ remote = NoRemote
  /\ ReentrantIdle
  /\ ClientIdle
  /\ config = GoodConfig
  /\ sheetsDown = FALSE
  /\ \E r \in EarlierReports :
       /\ snapshots = <<r>>
       /\ sheets = PrimaryTablesAfter(r)
       /\ audit = AuditPayload(InitialAudit,
                     getUniqueUrlsFromSheet(PrimaryTablesAfter(r)).urls)
  /\ pc = "idle"
  /\ deliveries = 0
  /\ InitLocals

NextCorrelation ==
  \/ DoPostHandler("primary")
  \/ DoPostHandler("secondary")
  \/ FetchAttempt
  \/ ProcessPrimaryStart
  \/ ProcessPrimaryWrite
  \/ ProcessPrimaryExtract
  \/ HandlePrimaryReadUrls
  \/ AuditGet
  \/ AuditPut
  \/ AuditRun
  \/ HandleSecondaryStart
  \/ HandleSecondaryWriteBroken
  \/ HandleSecondaryJoin
  \/ CatchError

SpecCorrelation == InitCorrelation /\ [][NextCorrelation]_vars

\* ------------------------------------------------- ObservePointClient
\* What UrlFetchApp.fetch and the parsing of its answer can come to in one
\* pass of the loop of makeRequest.
FetchOutcomes == {"ok", "rate_limited", "http_error", "fetch_raises", "not_json"}

ClientFrame ==
  <<env, persisted, pc, rawStage, stage, retryVars, auditVars, err, result,
    written, deliveries, setupVars, lockVars, reentrantVars, remote,
    snapshots, monitorVars, grid>>

\* One pass of the while loop of makeRequest: fetch; a 429 sleeps, counts
\* and goes on; a status of 400 or more, an exception of fetch and a body
\* that is not JSON raise into the catch, which rethrows on the last pass
\* and otherwise counts, sleeps and goes on; else the parsed body is
\* returned.
MakeRequestAttempt ==
  /\ request.pc = "loop"
  /\ request.retries < ClientMaxRetries
  /\ \E outcome \in FetchOutcomes :
       LET fetched == [request EXCEPT !.requests = @ + 1,
                                      !.answers = Append(@, outcome)]
       IN request' =
            IF outcome = "ok"
            THEN [fetched EXCEPT !.pc = "returned", !.value = "body"]
            ELSE IF outcome = "rate_limited"
            THEN [fetched EXCEPT !.retries = @ + 1, !.sleeps = @ + 1]
            ELSE IF request.retries = ClientMaxRetries - 1
            THEN [fetched EXCEPT !.pc = "threw"]
            ELSE [fetched EXCEPT !.retries = @ + 1, !.sleeps = @ + 1]
  /\ UNCHANGED ClientFrame

\* The loop condition fails: the function body ends without a return
\* statement, so the call evaluates to undefined.
MakeRequestLoopEnds ==
  /\ request.pc = "loop"
  /\ request.retries >= ClientMaxRetries
  /\ request' = [request EXCEPT !.pc = "returned", !.value = Undefined]
  /\ UNCHANGED ClientFrame

InitRequest ==
  /\ SetupIdle
  /\ LockIdle
  /\ MonitorIdle
  /\ ReentrantIdle
  /\ remote = NoRemote
  /\ snapshots = <<>>
  /\ config = GoodConfig
  /\ sheetsDown = FALSE
  /\ sheets = NoSheets
  /\ audit = InitialAudit
  /\ pc = "idle"
  /\ deliveries = 0
  /\ InitLocals
  /\ \E m \in {"get", "post", "put"} :
       request = [NoRequest EXCEPT !.pc = "loop", !.method = m]
  /\ grid = NoImport

NextRequest == MakeRequestAttempt \/ MakeRequestLoopEnds

SpecRequest == InitRequest /\ [][NextRequest]_vars

\* ------------------------------------------------------- grid importer
\* Page number page (from 0) of a report of total rows, the row numbered i
\* being the value i, at pageSize rows a page.
PageRows(total, pageSize, page) ==
  LET first == page * pageSize
      count == IF total - first < 0 THEN 0 ELSE Min(pageSize, total - first)
  IN [i \in 1..count |-> first + i]

\* getRange(startRow, 1, rows.length, numCols).setValues(rows) on the data
\* rows of the sheet: cells[k] is sheet row k + 1, 0 a blank row.
SetValuesAt(cells, startRow, rows) ==
  LET last == startRow - 2 + Len(rows)
      len == IF last > Len(cells) THEN last ELSE Len(cells)
  IN [k \in 1..len |->
        IF k >= startRow - 1 /\ k <= last THEN rows[k - (startRow - 2)]
        ELSE IF k <= Len(cells) THEN cells[k] ELSE 0]

\* writeToSheet(sheet, headers, rows, isFirstBatch, currentRow) on the state
\* of an import: nothing for no rows; the first batch clears the sheet,
\* writes the header row and starts at row 2; the rows go to startRow on;
\* the next free row is returned (kept in currentSheetRow when keep).
writeToSheet(g, rows, isFirstBatch, currentRow, keep) ==
  IF rows = <<>> THEN g
  ELSE LET startRow == IF isFirstBatch THEN 2 ELSE currentRow
           before == IF isFirstBatch THEN <<>> ELSE g.cells
       IN [g EXCEPT !.headerRow = IF isFirstBatch THEN TRUE ELSE @,
                    !.headerWrites = IF isFirstBatch THEN @ + 1 ELSE @,
                    !.cells = SetValuesAt(before, startRow, rows),
                    !.writes = @ + Len(rows),
                    !.currentSheetRow = IF keep THEN startRow + Len(rows) ELSE @]

GridFrame ==
  <<env, persisted, pc, rawStage, stage, retryVars, auditVars, err, result,
    written, deliveries, setupVars, lockVars, reentrantVars, remote,
    snapshots, monitorVars, request>>

\* One pass of the while (true) loop of fetchAllData: the maxPages test,
\* the page fetch, the no-more-data test, the batch write, the last-page
\* test, the page increment and the row-limit test.
FetchAllDataPass ==
  /\ grid.pc = "loop"
  /\ LET pageData == PageRows(grid.total, grid.pageSize, grid.currentPage)
         fetched == [grid EXCEPT !.allRows = @ \o pageData,
                                 !.totalRows = @ + Len(pageData)]
         batched == IF Len(fetched.allRows) >= grid.batchSize
                    THEN [writeToSheet(fetched, fetched.allRows,
                                       grid.currentPage = 0,
                                       grid.currentSheetRow, TRUE)
                            EXCEPT !.allRows = <<>>]
                    ELSE fetched
     IN grid' =
          IF grid.maxPages # 0 /\ grid.currentPage >= grid.maxPages
          THEN [grid EXCEPT !.pc = "after_loop"]
          ELSE IF pageData = <<>>
          THEN [grid EXCEPT !.pc = "after_loop"]
          ELSE IF Len(pageData) < grid.pageSize
          THEN [batched EXCEPT !.pc = "after_loop"]
          ELSE [batched EXCEPT !.currentPage = @ + 1,
                               !.pc = IF batched.totalRows >= MAX_SHEET_ROWS
                                      THEN "after_loop" ELSE "loop"]
  /\ UNCHANGED GridFrame

\* After the loop: the rows not yet written are written, then totalRows is
\* returned.
FetchAllDataReturn ==
  /\ grid.pc = "after_loop"
  /\ grid' =
       [writeToSheet(grid, grid.allRows,
                     grid.currentPage = 0 /\ grid.totalRows = Len(grid.allRows),
                     grid.currentSheetRow, FALSE)
          EXCEPT !.pc = "returned", !.returned = grid.totalRows]
  /\ UNCHANGED GridFrame

\* fetchAllData on a new sheet, for every report of up to MaxGridRows rows,
\* every page size, batch size and maxPages (0: no limit) up to the bounds.
InitGrid ==
  /\ SetupIdle
  /\ LockIdle
  /\ MonitorIdle
  /\ ReentrantIdle
  /\ remote = NoRemote
  /\ snapshots = <<>>
  /\ config = GoodConfig
  /\ sheetsDown = FALSE
  /\ sheets = NoSheets
  /\ audit = InitialAudit
  /\ pc = "idle"
  /\ deliveries = 0
  /\ InitLocals
  /\ request = NoRequest
  /\ \E total \in 0..MaxGridRows, pageSize \in 1..MaxPageSize,
        batchSize \in 1..MaxBatchSize, maxPages \in 0..MaxGridPages :
       grid = [NoImport EXCEPT !.pc = "loop", !.total = total,
                               !.pageSize = pageSize, !.batchSize = batchSize,
                               !.maxPages = maxPages]

NextGrid == FetchAllDataPass \/ FetchAllDataReturn

SpecGrid == InitGrid /\ [][NextGrid]_vars

\* One fetchGridReportData call on its own, on reports of 1..MaxPageCount
\* pages (page i holds the single row <<i>>) where the saved-report request
\* and at most one page request may be answered with an error status.
PagedAnswers ==
  {[saved |-> sv, headers |-> <<"FINAL_PAGE_URL">>,
    rows |-> [i \in 1..pages |-> <<<<i>>>>],
    codes |-> [i \in 1..pages |-> IF i = failing THEN 500 ELSE 200]] :
     sv \in Statuses, pages \in 1..MaxPageCount, failing \in 0..MaxPageCount}

FetchGridReportDataCall ==
  /\ pc = "fetch_once"
  /\ LET got == fetchGridReportData(remote) IN
       /\ fetches' = [fetches EXCEPT ![reportKind] = @ + 1]
       /\ remoteFailed' = RequestFailed(remote)
       /\ lastFetched' = IF got.threw THEN EmptyReport ELSE got.data
       /\ IF got.threw
          THEN Throw(got.err) /\ UNCHANGED reportData
          ELSE /\ reportData' = got.data
               /\ pc' = "returned"
               /\ UNCHANGED err
  /\ UNCHANGED <<persisted, env, rawStage, stage, caller, reportKind, attempt,
                 maxRetries, sleeps, auditVars, result, written, deliveries,
                 setupVars, lockVars, reentrantVars, clientVars, remote, snapshots, monitorVars>>

InitPages ==
  /\ SetupIdle
  /\ LockIdle
  /\ MonitorIdle
  /\ remote \in PagedAnswers
  /\ ReentrantIdle
  /\ ClientIdle
  /\ snapshots = <<>>
  /\ config = GoodConfig
  /\ sheetsDown = FALSE
  /\ sheets = NoSheets
  /\ audit = InitialAudit
  /\ pc = "fetch_once"
  /\ deliveries = 0
  /\ rawStage = ""
  /\ stage = ""
  /\ caller = "none"
  /\ reportKind = "primary"
  /\ attempt = 1
  /\ maxRetries = 1
  /\ reportData = EmptyReport
  /\ uniqueUrls = <<>>
  /\ auditObj = InitialAudit
  /\ fetches = [k \in {"primary", "broken"} |-> 0]
  /\ sleeps = 0
  /\ remoteFailed = FALSE
  /\ lastFetched = EmptyReport
  /\ auditCalls = <<>>
  /\ err = ""
  /\ result = NoResult
  /\ written = {}

NextPages == FetchGridReportDataCall

SpecPages == InitPages /\ [][NextPages]_vars

\* The join on its own: the secondary stage standing just before it reads
\* back Primary_Report, for every persisted primary report and every fetched
\* broken-links report of at most MaxRows rows.
JoinPrimarySheets ==
  {NoSheets,
   [NoSheets EXCEPT ![SHEET_PRIMARY_REPORT] = [exists |-> TRUE, data |-> <<>>]]} \cup
  {writeGridDataToSheet(NoSheets, SHEET_PRIMARY_REPORT, PrimaryReport(h, ls)).sheets :
     h \in {PrimaryHeaderLayouts.std, PrimaryHeaderLayouts.swapped,
            PrimaryHeaderLayouts.nolink, PrimaryHeaderLayouts.short},
     ls \in SeqsUpTo({"", "u1", "u2"}, MaxRows) \ {<<>>}}

JoinBrokenReports ==
  {BrokenReportWith(h, ts) :
     h \in {BrokenHeaders, <<"FINAL_PAGE_URL", "FINAL_PAGE_STATUS_CODE">>,
            <<"FINAL_PAGE_STATUS_CODE", "INITIAL_PAGE_URL">>},
     ts \in SeqsUpTo({"", "u1", "u3"}, MaxRows) \ {<<>>}}

InitJoin ==
  /\ SetupIdle
  /\ LockIdle
  /\ MonitorIdle
  /\ remote = NoRemote
  /\ ReentrantIdle
  /\ ClientIdle
  /\ snapshots = <<>>
  /\ config = GoodConfig
  /\ sheetsDown = FALSE
  /\ reportData \in JoinBrokenReports
  /\ \E sh \in JoinPrimarySheets :
       sheets = writeGridDataToSheet(sh, SHEET_BROKEN_REPORT, reportData).sheets
  /\ audit = InitialAudit
  /\ pc = "s_join"
  /\ deliveries = 1
  /\ rawStage = "secondary"
  /\ stage = "secondary"
  /\ caller = "secondary"
  /\ reportKind = "broken"
  /\ attempt = 1
  /\ maxRetries = WebhookMaxRetries
  /\ uniqueUrls = <<>>
  /\ auditObj = InitialAudit
  /\ fetches = [k \in {"primary", "broken"} |-> IF k = "broken" THEN 1 ELSE 0]
  /\ sleeps = 0
  /\ remoteFailed = FALSE
  /\ lastFetched = EmptyReport
  /\ auditCalls = <<>>
  /\ err = ""
  /\ result = NoResult
  /\ written = {SHEET_BROKEN_REPORT}

NextJoin == HandleSecondaryJoin

SpecJoin == InitJoin /\ [][NextJoin]_vars

\* extractUniqueUrls on its own, as processPrimaryReportData calls it: on the
\* rows of every report of at most MaxLinks rows whose LINK_URL column stands
\* first or second and holds blanks and repeated URLs.
ExtractUniqueUrlsCall ==
  /\ UNCHANGED <<setupVars, lockVars, reentrantVars, clientVars, remote,
                 snapshots, monitorVars>>
  /\ pc = "extract"
  /\ uniqueUrls' = extractUniqueUrls(reportData.rows,
                                     findColumnIndex(reportData.headers, "LINK_URL"))
  /\ pc' = "returned"
  /\ UNCHANGED <<persisted, env, rawStage, stage, retryVars, auditObj,
                 auditCalls, err, result, written, deliveries>>

InitExtract ==
  /\ SetupIdle
  /\ LockIdle
  /\ MonitorIdle
  /\ remote = NoRemote
  /\ ReentrantIdle
  /\ ClientIdle
  /\ snapshots = <<>>
  /\ config = GoodConfig
  /\ sheetsDown = FALSE
  /\ sheets = NoSheets
  /\ audit = InitialAudit
  /\ pc = "extract"
  /\ deliveries = 1
  /\ rawStage = "primary"
  /\ stage = "primary"
  /\ caller = "primary"
  /\ reportKind = "primary"
  /\ attempt = 1
  /\ maxRetries = WebhookMaxRetries
  /\ reportData \in
       {PrimaryReport(h, ls) :
          h \in {PrimaryHeaderLayouts.std, PrimaryHeaderLayouts.swapped},
          ls \in SeqsUpTo({"", "u1", "u2"}, MaxLinks)}
  /\ uniqueUrls = <<>>
  /\ auditObj = InitialAudit
  /\ fetches = [k \in {"primary", "broken"} |-> IF k = "primary" THEN 1 ELSE 0]
  /\ sleeps = 0
  /\ remoteFailed = FALSE
  /\ lastFetched = EmptyReport
  /\ auditCalls = <<>>
  /\ err = ""
  /\ result = NoResult
  /\ written = {}

NextExtract == ExtractUniqueUrlsCall

SpecExtract == InitExtract /\ [][NextExtract]_vars

\* The setup wizard run up to MaxSetupRuns times on a spreadsheet without a
\* Config sheet, or with one in which the operator has entered some of the
\* three resource IDs.
InitSetup ==
  /\ LockIdle
  /\ MonitorIdle
  /\ remote = NoRemote
  /\ ReentrantIdle
  /\ ClientIdle
  /\ snapshots = <<>>
  /\ SetupIdle
  /\ config \in
       {[GoodConfig EXCEPT !.hasSheet = FALSE]} \cup
       {[hasSheet |-> TRUE, OP_API_KEY |-> "key", PRIMARY_REPORT_ID |-> a,
         BROKEN_REPORT_ID |-> b, SECONDARY_AUDIT_ID |-> c] :
          a \in {"", "16008"}, b \in {"", "16009"}, c \in {"", "2018768"}}
  /\ sheetsDown = FALSE
  /\ sheets = NoSheets
  /\ audit = InitialAudit
  /\ pc = "idle"
  /\ deliveries = 0
  /\ InitLocals

NextSetup ==
  \/ CollectSetupInputs
  \/ ProceedWithAutomatedSetup
  \/ createOrGetPrimaryReport
  \/ createOrGetSecondaryAudit
  \/ createOrGetSecondaryReport
  \/ updateConfigWithIds
  \/ configureWebhooks

SpecSetup == InitSetup /\ [][NextSetup]_vars

\* One webhook delivery on a Config sheet that lacks one of the settings: the
\* sheet itself, the API key, or one of the three resource IDs (which
\* getConfig reads as '').
ConfigsWithMissingSetting ==
  {[GoodConfig EXCEPT !.hasSheet = FALSE],
   [GoodConfig EXCEPT !.OP_API_KEY = ""],
   [GoodConfig EXCEPT !.PRIMARY_REPORT_ID = ""],
   [GoodConfig EXCEPT !.BROKEN_REPORT_ID = ""],
   [GoodConfig EXCEPT !.SECONDARY_AUDIT_ID = ""]}

InitConfig ==
  /\ LockIdle
  /\ MonitorIdle
  /\ remote = NoRemote
  /\ ReentrantIdle
  /\ ClientIdle
  /\ snapshots = <<>>
  /\ SetupIdle
  /\ config \in ConfigsWithMissingSetting \cup {GoodConfig}
  /\ sheetsDown = FALSE
  /\ sheets = NoSheets
  /\ audit = InitialAudit
  /\ pc = "idle"
  /\ deliveries = MaxDeliveries - 1
  /\ InitLocals

SpecConfig == InitConfig /\ [][Next]_vars

\* Webhook deliveries reaching the locking doPost wrapper, at most two
\* executions at a time.
InitLock ==
  /\ LockIdle
  /\ MonitorIdle
  /\ remote = NoRemote
  /\ ReentrantIdle
  /\ ClientIdle
  /\ snapshots = <<>>
  /\ SetupIdle
  /\ config = GoodConfig
  /\ sheetsDown = FALSE
  /\ sheets = NoSheets
  /\ audit = InitialAudit
  /\ pc = "idle"
  /\ deliveries = 0
  /\ InitLocals

WrapperStep(p) ==
  \/ TryLockAcquires(p)
  \/ TryLockTimesOut(p)
  \/ RouterCall(p)
  \/ RouterReturn(p)
  \/ WrapperFinally(p)

NextLock == \E p \in Procs : DoPostStart(p) \/ WrapperStep(p)

SpecLock == InitLock /\ [][NextLock]_vars

\* An execution that has started runs to its end: the router terminates and
\* the platform does not suspend an execution forever.
SpecLockFair == SpecLock /\ \A p \in Procs : WF_vars(WrapperStep(p))

\* ------------------------------------------------------------------ claims
RemoteCallsMade == fetches["primary"] + fetches["broken"] + Len(auditCalls)
AnsweredOK == result = TextOutput(<<"OK">>)
Methods(reqs) == [i \in 1..Len(reqs) |-> reqs[i].method]
\* The retry loop ran to its end: every attempt fetched zero rows.
RetriesExhausted == maxRetries > 0 /\ attempt = maxRetries + 1
HeaderOnly(name) == sheets[name].exists /\ Len(sheets[name].data) = 1

C2_NeverPropagates == result.kind # "throw"

\* C3: a primary stage whose report stayed empty through all 10 attempts
\* fails with a fatal error, has modified no persisted table and has made no
\* request to the secondary audit.
C3_PrimaryEmptyIsFatal ==
  (stage = "primary" /\ RetriesExhausted) =>
    /\ fetches["primary"] = WebhookMaxRetries
    /\ written = {}
    /\ auditCalls = <<>>
    /\ pc \in {"p_write", "catch", "done"}
    /\ pc \in {"catch", "done"} =>
         err \in {"Primary report has no data after waiting", SheetError}
    /\ pc = "done" => result \in {TextOutput(<<"Error: ", err>>), Thrown(SheetError)}

C3_Witness ==
  /\ stage = "primary"
  /\ RetriesExhausted
  /\ pc = "done"
  /\ result = TextOutput(<<"Error: ", "Primary report has no data after waiting">>)
  /\ written = {}

\* C4: a secondary stage whose broken-links report stayed empty through all
\* retries (the spreadsheet service not failing) answers OK, leaves
\* Broken_Links_Report with zero data rows and writes Final_Broken_Links
\* with zero data rows.
C4_EmptySecondarySucceeds ==
  (stage = "secondary" /\ RetriesExhausted /\ pc = "done" /\ err # SheetError) =>
    /\ AnsweredOK
    /\ SHEET_BROKEN_REPORT \in written /\ Len(sheets[SHEET_BROKEN_REPORT].data) <= 1
    /\ SHEET_FINAL_REPORT \in written /\ HeaderOnly(SHEET_FINAL_REPORT)

\* C5: the retry engine makes at most maxRetries fetches and sleeps only
\* between two attempts; when every attempt fetched zero rows it has made
\* exactly maxRetries fetches and maxRetries - 1 sleeps and returns the empty
\* report; it raises only an error of a remote call or of the log sheet.
C5_RetryExhaustion ==
  /\ fetches[reportKind] <= maxRetries
  /\ pc = "fetch" => (attempt <= maxRetries /\ fetches[reportKind] = attempt - 1
                      /\ sleeps = attempt - 1)
  /\ (pc = "returned" /\ Len(reportData.rows) = 0) =>
       /\ RetriesExhausted
       /\ fetches[reportKind] = maxRetries
       /\ sleeps = maxRetries - 1
       /\ reportData = EmptyReport
       /\ err = ""
  /\ pc = "catch" =>
       err \in {"Saved report fetch failed", "Grid data fetch failed", SheetError}

C5_Witness ==
  /\ pc = "returned"
  /\ maxRetries = 3
  /\ fetches[reportKind] = 3
  /\ sleeps = 2
  /\ reportData = EmptyReport

\* C6: once the PUT of updateAndRunSecondaryAudit has succeeded, the
\* secondary audit holds exactly the URL list passed in, and its limit is
\* the length of that list, whatever it held before.
PutSucceeded ==
  \E i \in 1..Len(auditCalls) :
    auditCalls[i].method = "PUT" /\ auditCalls[i].code < 300

C6_UrlsReplaced ==
  PutSucceeded =>
    /\ audit.startingUrls = uniqueUrls
    /\ audit.limit = Len(uniqueUrls)

\* A second successful primary run: the audit held u1, u2 and now holds u2.
C6_Witness ==
  /\ deliveries = 2
  /\ pc = "done" /\ AnsweredOK
  /\ auditObj.startingUrls = <<"u1", "u2">>
  /\ audit.startingUrls = <<"u2">>
  /\ audit.limit = 1

\* C7: a successful primary stage has sent to the secondary audit exactly
\* the distinct non-empty LINK_URL values of the fetched rows, in order of
\* first occurrence; the list read back from Unique_Link_URLs is that list;
\* and it has made exactly one run request.
LinkColumn(report) ==
  LET c == CHOOSE i \in 1..Len(report.headers) : report.headers[i] = "LINK_URL"
  IN [i \in 1..Len(report.rows) |-> report.rows[i][c]]

FirstIndex(col, v) ==
  CHOOSE k \in 1..Len(col) : col[k] = v /\ \A m \in 1..(k - 1) : col[m] # v

IsFirstOccurrenceDedup(u, col) ==
  /\ \A i, j \in 1..Len(u) : i # j => u[i] # u[j]
  /\ {u[i] : i \in 1..Len(u)} = {col[k] : k \in 1..Len(col)} \ {""}
  /\ \A i, j \in 1..Len(u) : i < j => FirstIndex(col, u[i]) < FirstIndex(col, u[j])

C7_PrimaryEndToEnd ==
  (stage = "primary" /\ pc = "done" /\ AnsweredOK) =>
    /\ \E i \in 1..Len(reportData.headers) : reportData.headers[i] = "LINK_URL"
    /\ IsFirstOccurrenceDedup(audit.startingUrls, LinkColumn(reportData))
    /\ uniqueUrls = audit.startingUrls
    /\ sheets[SHEET_UNIQUE_URLS].data =
         << <<"Link URL">> >> \o [i \in 1..Len(uniqueUrls) |-> <<uniqueUrls[i]>>]
    /\ Methods(auditCalls) = <<"GET", "PUT", "RUN">>
    /\ \A i \in 1..3 : auditCalls[i].code < 300

C7_Witness ==
  /\ stage = "primary" /\ pc = "done" /\ AnsweredOK
  /\ reportData = PrimaryReport(PrimaryHeaderLayouts.std, <<"u1", "u2", "u1">>)
  /\ audit.startingUrls = <<"u1", "u2">>

\* C8: the audit requests of one invocation are a prefix of GET, PUT, RUN,
\* and every request but the last was answered below 300: no PUT after a
\* failed GET, no run after a failed GET or PUT.
C8_SaveThenRun ==
  /\ Len(auditCalls) <= 3
  /\ Methods(auditCalls) = SubSeq(<<"GET", "PUT", "RUN">>, 1, Len(auditCalls))
  /\ \A i \in 1..(Len(auditCalls) - 1) : auditCalls[i].code < 300

C8_Witness ==
  /\ pc = "done"
  /\ Methods(auditCalls) = <<"GET", "PUT">>
  /\ auditCalls[2].code >= 300

\* C9: when the PUT succeeded and the run request failed, the audit holds
\* the new URL list, no run was triggered, and the error raised names the
\* run, whereas a failed PUT raises an error naming the update.
LastCallFailed(method) ==
  /\ auditCalls # <<>>
  /\ auditCalls[Len(auditCalls)].method = method
  /\ auditCalls[Len(auditCalls)].code >= 300

C9_RunFailureAfterSave ==
  /\ LastCallFailed("RUN") =>
       /\ PutSucceeded
       /\ audit.startingUrls = uniqueUrls /\ audit.limit = Len(uniqueUrls)
       /\ \A i \in 1..Len(auditCalls) :
            auditCalls[i].method = "RUN" => auditCalls[i].code >= 300
       /\ err = "Audit run failed"
       /\ ~AnsweredOK
  /\ LastCallFailed("PUT") => err = "Audit update failed"

C9_Witness ==
  /\ pc = "done"
  /\ LastCallFailed("RUN")
  /\ auditObj.startingUrls = <<"https://example.com">>
  /\ audit.startingUrls = <<"u1", "u2">>
  /\ result = TextOutput(<<"Error: ", "Audit run failed">>)

\* C10: the join emits at most one row per broken row and only for a broken
\* row whose INITIAL_PAGE_URL is the LINK_URL of a primary row: for every
\* link URL, the emitted rows carrying it are no more than the broken rows
\* about it, and every emitted row carries the LINK_URL of some primary row
\* and the INITIAL_PAGE_URL of some broken row.
ColumnValues(report, columnId) ==
  IF \E i \in 1..Len(report.headers) : report.headers[i] = columnId
  THEN LET c == CHOOSE i \in 1..Len(report.headers) : report.headers[i] = columnId
       IN [i \in 1..Len(report.rows) |-> report.rows[i][c]]
  ELSE <<>>

Occurrences(col, v) == Cardinality({i \in 1..Len(col) : col[i] = v})

C10_JoinDirection ==
  (pc = "done" /\ AnsweredOK /\ stage = "secondary") =>
    LET primaryKeys == ColumnValues(readSheetAsGridData(sheets, SHEET_PRIMARY_REPORT), "LINK_URL")
        brokenKeys == ColumnValues(reportData, "INITIAL_PAGE_URL")
        joined == Tail(sheets[SHEET_FINAL_REPORT].data)
        joinedKeys == [i \in 1..Len(joined) |-> joined[i][2]]
    IN /\ Len(joined) <= Len(reportData.rows)
       /\ \A i \in 1..Len(joined) :
            /\ Occurrences(primaryKeys, joinedKeys[i]) > 0
            /\ Occurrences(joinedKeys, joinedKeys[i]) <= Occurrences(brokenKeys, joinedKeys[i])

\* One broken row matched, one dropped, one primary row never emitted.
C10_Witness ==
  /\ pc = "done" /\ AnsweredOK
  /\ ColumnValues(reportData, "INITIAL_PAGE_URL") = <<"u1", "u3">>
  /\ ColumnValues(readSheetAsGridData(sheets, SHEET_PRIMARY_REPORT), "LINK_URL") = <<"u2", "u1">>
  /\ Len(sheets[SHEET_FINAL_REPORT].data) = 2


\* C11: every row of the final report has exactly six values: source page
\* URL, link URL, link text and link HTML of a primary row, then destination
\* URL and status code of a broken row whose INITIAL_PAGE_URL is that primary
\* row's LINK_URL; each value is found by its column identifier, wherever
\* the column stands, and is empty when the input has no such column.
ValueOf(headers, row, columnId) ==
  IF \E i \in 1..Len(headers) : headers[i] = columnId
  THEN row[CHOOSE i \in 1..Len(headers) : headers[i] = columnId]
  ELSE ""

C11_JoinProjection ==
  (pc = "done" /\ AnsweredOK /\ stage = "secondary") =>
    LET primary == readSheetAsGridData(sheets, SHEET_PRIMARY_REPORT)
        joined == Tail(sheets[SHEET_FINAL_REPORT].data)
    IN /\ Head(sheets[SHEET_FINAL_REPORT].data) = JoinedHeaders
       /\ \A i \in 1..Len(joined) :
            /\ Len(joined[i]) = 6
            /\ \E p \in 1..Len(primary.rows), b \in 1..Len(reportData.rows) :
                 /\ ValueOf(primary.headers, primary.rows[p], "LINK_URL") =
                      ValueOf(reportData.headers, reportData.rows[b], "INITIAL_PAGE_URL")
                 /\ joined[i] =
                      << ValueOf(primary.headers, primary.rows[p], "FINAL_PAGE_URL"),
                         ValueOf(primary.headers, primary.rows[p], "LINK_URL"),
                         ValueOf(primary.headers, primary.rows[p], "LINK_TEXT"),
                         ValueOf(primary.headers, primary.rows[p], "LINK_OUTER_HTML"),
                         ValueOf(reportData.headers, reportData.rows[b], "FINAL_PAGE_URL"),
                         ValueOf(reportData.headers, reportData.rows[b], "FINAL_PAGE_STATUS_CODE") >>

\* Columns in another order and some absent: LINK_URL first and no text or
\* HTML on the primary side, no destination URL on the broken side.
C11_Witness ==
  /\ pc = "done" /\ AnsweredOK
  /\ readSheetAsGridData(sheets, SHEET_PRIMARY_REPORT).headers = PrimaryHeaderLayouts.short
  /\ reportData.headers = <<"FINAL_PAGE_STATUS_CODE", "INITIAL_PAGE_URL">>
  /\ sheets[SHEET_FINAL_REPORT].data =
       <<JoinedHeaders, <<"pageA", "u1", "", "", "", "404">> >>

\* C12, as stated: the result of extractUniqueUrls has no duplicates, holds
\* only values of the column, holds every value of the column, and keeps the
\* order of first occurrences.
Distinct(u) == \A i, j \in 1..Len(u) : i # j => u[i] # u[j]
Elements(u) == {u[i] : i \in 1..Len(u)}
InFirstOccurrenceOrder(u, col) ==
  \A i, j \in 1..Len(u) : i < j => FirstIndex(col, u[i]) < FirstIndex(col, u[j])

C12_EveryValueKept ==
  pc = "returned" =>
    LET col == LinkColumn(reportData)
    IN /\ Distinct(uniqueUrls)
       /\ Elements(uniqueUrls) = Elements(col)
       /\ InFirstOccurrenceOrder(uniqueUrls, col)

\* C12, amended: the same for the non-empty values of the column; an empty
\* cell never appears in the result.
C12_EveryNonEmptyValueKept ==
  pc = "returned" =>
    LET col == LinkColumn(reportData)
    IN /\ Distinct(uniqueUrls)
       /\ Elements(uniqueUrls) \subseteq Elements(col)
       /\ Elements(col) \ {""} \subseteq Elements(uniqueUrls)
       /\ "" \notin Elements(uniqueUrls)
       /\ InFirstOccurrenceOrder(uniqueUrls, col)

C12_Witness ==
  /\ pc = "returned"
  /\ LinkColumn(reportData) = <<"u1", "u2", "u1">>
  /\ uniqueUrls = <<"u1", "u2">>

\* C13: of the calls of one create-or-get routine that returned, every call
\* after the first reports created = false and the ID the first call
\* returned, and the remote has been made to create at most one resource of
\* that kind.
Returned(kind) == SelectSeq(calls[kind], LAMBDA c : c.returned)

C13_SecondCallCreatesNothing ==
  \A k \in Kinds :
    /\ \A i \in 2..Len(Returned(k)) :
         /\ ~Returned(k)[i].created
         /\ Returned(k)[i].id = Returned(k)[1].id
    /\ remoteCreated[k] <= 1

\* C14: a create-or-get call that finds its ID in the configuration returns
\* that ID with created = false and sends no create request; and once a
\* setup run has completed, the three configured IDs and the resources the
\* remote holds stay what that run left, whatever setup runs follow.
C14_ShortCircuitOnConfiguredId ==
  /\ \A k \in Kinds : \A i \in 1..Len(calls[k]) :
       calls[k][i].configured # "" =>
         /\ calls[k][i].returned
         /\ calls[k][i].id = calls[k][i].configured
         /\ ~calls[k][i].created
         /\ ~calls[k][i].posted
  /\ setupDone.done =>
       /\ \A k \in Kinds : /\ setupDone.ids[k] # ""
                            /\ config[ConfigKey(k)] = setupDone.ids[k]
       /\ remoteCreated = setupDone.created

\* A second complete run after a first one that created all three resources.
C14_Witness ==
  /\ setupPc = "complete"
  /\ setupRuns = 2
  /\ setupDone.created = [k \in Kinds |-> 1]
  /\ \A k \in Kinds :
       /\ Len(calls[k]) = 2
       /\ calls[k][1].created
       /\ ~calls[k][2].created /\ ~calls[k][2].posted
       /\ calls[k][2].id = calls[k][1].id

\* C15: at most one wrapper invocation is between its call of the router
\* and the router's return, and that invocation holds the lock throughout:
\* the releaseLock of an invocation that failed to acquire the lock leaves
\* it with its holder.
InRouter(p) == wpc[p] \in {"call", "router"}

C15_MutualExclusion ==
  /\ Cardinality({p \in Procs : InRouter(p)}) <= 1
  /\ \A p \in Procs : InRouter(p) => (hasLock[p] /\ lockHolder = p)

\* Invocation 2 failed to acquire, ran its finally and returned while
\* invocation 1 is still in the router with the lock.
C15_Witness ==
  /\ wpc[1] = "router" /\ lockHolder = 1
  /\ wpc[2] = "returned" /\ ~hasLock[2]
  /\ response[2] = SkippedDuplicate

\* C16: a wrapper invocation that has returned does not hold the lock,
\* whether the router answered OK, answered an error or threw; and the lock,
\* once held, is always eventually free again.
C16_LockAlwaysReleased ==
  /\ [](\A p \in Procs : wpc[p] = "returned" => lockHolder # p)
  /\ \A p \in Procs : (lockHolder = p) ~> (lockHolder = 0)

\* The router threw, the catch answered, the finally released.
C16_Witness ==
  \E p \in Procs :
    /\ wpc[p] = "returned" /\ hasLock[p]
    /\ response[p] = TextOutput(<<"Error: ", SheetError>>)
    /\ lockHolder = 0

\* C17: an invocation whose tryLock timed out never calls the router and
\* returns the text 'Processing in progress, skipped duplicate', which is
\* no error; the router is only ever called by an invocation that acquired
\* the lock, so a discarded delivery is not processed later either.
C17_DuplicateDiscarded ==
  \A p \in Procs :
    /\ (wpc[p] \in {"finally", "returned"} /\ ~hasLock[p]) =>
         /\ ~routerCalled[p]
         /\ response[p] = SkippedDuplicate
         /\ response[p].kind = "text" /\ response[p].body[1] # "Error: "
    /\ routerCalled[p] => hasLock[p]
    /\ InRouter(p) => hasLock[p]

\* Both invocations have returned; one ran the router, the other was
\* discarded and no third invocation took its place.
C17_Witness ==
  /\ invocations = 2
  /\ wpc[1] = "returned" /\ hasLock[1] /\ routerCalled[1]
  /\ wpc[2] = "returned" /\ ~hasLock[2] /\ ~routerCalled[2]
  /\ response[2] = SkippedDuplicate

\* C18: a stage run on a configuration that lacks a setting the stage needs
\* (the Config sheet, the API key, the ID of the report the stage fetches,
\* for the primary stage the secondary audit ID) makes no remote request and
\* ends with an error.
RequiredSettingMissing ==
  \/ ~config.hasSheet
  \/ config.OP_API_KEY = ""
  \/ stage = "primary" /\ config.PRIMARY_REPORT_ID = ""
  \/ stage = "primary" /\ config.SECONDARY_AUDIT_ID = ""
  \/ stage = "secondary" /\ config.BROKEN_REPORT_ID = ""

C18_ConfigValidatedFirst ==
  (stage \in {"primary", "secondary"} /\ RequiredSettingMissing) =>
    /\ RemoteCallsMade = 0
    /\ ~AnsweredOK

\* C19: whenever a request of the invocation (the saved report, a report
\* page, the audit GET, PUT or run) was answered with a status of 300 or
\* more, the stage is aborted: the invocation is in its error handler or has
\* ended with an error, and it never answers OK.
SomeRequestFailed ==
  \/ remoteFailed
  \/ \E i \in 1..Len(auditCalls) : auditCalls[i].code >= 300

C19_RemoteErrorAborts ==
  SomeRequestFailed =>
    /\ pc \in {"catch", "done"}
    /\ err # ""
    /\ ~AnsweredOK

\* C20: the step in which a report request is first answered with a status
\* of 300 or more makes no sleep and no further attempt and leaves the retry
\* loop; once the error is in the handler the invocation only ends, with no
\* further request and no sleep.
FetchErrors == {"Saved report fetch failed", "Grid data fetch failed"}

RECURSIVE Flatten(_)
Flatten(pages) ==
  IF pages = <<>> THEN <<>> ELSE Head(pages) \o Flatten(Tail(pages))

C21_AllPagesReturned ==
  (pc = "returned" /\ ~remoteFailed) =>
    reportData.rows = Flatten(remote.rows)

\* C22: an invocation that has ended answered exactly 'OK' when its stage
\* handler ran to completion without error, and 'Error: <message>' in every
\* other case.
IsErrorBody(r) ==
  r.kind = "text" /\ Len(r.body) = 2 /\ r.body[1] = "Error: "

C22_ResponseBodyFormat ==
  pc = "done" =>
    /\ AnsweredOK => (stage \in {"primary", "secondary"} /\ err = "")
    /\ ~AnsweredOK => IsErrorBody(result)

\* C23, as stated: the primary handler runs only for the parameter
\* 'primary', the secondary handler only for 'secondary'; any other
\* parameter makes no remote call, writes no table and is not answered OK.
PrimaryHandlerRunning ==
  \/ pc \in {"p_start", "p_write", "p_extract", "p_urls", "audit_get",
              "audit_put", "audit_run"}
  \/ pc = "fetch" /\ caller = "primary"
SecondaryHandlerRunning ==
  \/ pc \in {"s_start", "s_write", "s_join"}
  \/ pc = "fetch" /\ caller = "secondary"
Rejected == RemoteCallsMade = 0 /\ written = {} /\ ~AnsweredOK

C23_ExactStageValues ==
  /\ PrimaryHandlerRunning => rawStage = "primary"
  /\ SecondaryHandlerRunning => rawStage = "secondary"
  /\ (deliveries > 0 /\ rawStage \notin {"primary", "secondary"}) =>
       (Rejected /\ ~PrimaryHandlerRunning /\ ~SecondaryHandlerRunning)

\* C23, amended: the parameter is lower-cased first.  The primary handler
\* runs only for a parameter spelling 'primary' in any case, the secondary
\* handler only for one spelling 'secondary'; such a parameter is never
\* answered 'Unknown stage', and any other parameter is rejected.
SpellsPrimary == rawStage \in {"primary", "PRIMARY"}
SpellsSecondary == rawStage \in {"secondary", "Secondary"}

C23_StageValuesIgnoringCase ==
  /\ PrimaryHandlerRunning => SpellsPrimary
  /\ SecondaryHandlerRunning => SpellsSecondary
  /\ (SpellsPrimary \/ SpellsSecondary) => err # "Unknown stage"
  /\ (deliveries > 0 /\ ~SpellsPrimary /\ ~SpellsSecondary) =>
       (Rejected /\ ~PrimaryHandlerRunning /\ ~SecondaryHandlerRunning)

\* A delivery with stage=PRIMARY has fetched the primary report and stands in
\* the primary handler.
C23_Witness ==
  /\ rawStage = "PRIMARY"
  /\ pc = "p_write"
  /\ fetches["primary"] = 1

\* C24: after a stage answered OK, each table the stage produces holds the
\* header row and the rows of this run and nothing else: Primary_Report the
\* fetched report and Unique_Link_URLs its distinct links, Broken_Links_Report
\* the fetched report and Final_Broken_Links its join with the persisted
\* primary report.
TableOf(gridData) == <<gridData.headers>> \o gridData.rows

C24_FullOverwrite ==
  /\ (AnsweredOK /\ stage = "primary") =>
       /\ sheets[SHEET_PRIMARY_REPORT].data = TableOf(reportData)
       /\ sheets[SHEET_UNIQUE_URLS].data =
            LET urls == extractUniqueUrls(reportData.rows,
                          findColumnIndex(reportData.headers, "LINK_URL"))
            IN << <<"Link URL">> >> \o [i \in 1..Len(urls) |-> <<urls[i]>>]
  /\ (AnsweredOK /\ stage = "secondary") =>
       /\ sheets[SHEET_BROKEN_REPORT].data = TableOf(reportData)
       /\ sheets[SHEET_FINAL_REPORT].data =
            TableOf(joinReports(readSheetAsGridData(sheets, SHEET_PRIMARY_REPORT),
                                reportData))

\* A second delivery ran the secondary stage to its end on a report of one
\* row; the broken-links table holds the header and that row.
C24_Witness ==
  /\ deliveries = 2
  /\ stage = "secondary"
  /\ AnsweredOK
  /\ Len(reportData.rows) = 1
  /\ Len(sheets[SHEET_BROKEN_REPORT].data) = 2

\* C25: when the Primary_Report table is absent or empty, the join step of
\* the secondary stage raises nothing: the table reads as zero rows, the
\* final report is written with its header row only, and the stage answers
\* OK.
PrimaryNeverPersisted ==
  \/ ~sheets[SHEET_PRIMARY_REPORT].exists
  \/ sheets[SHEET_PRIMARY_REPORT].data = <<>>

ReadOnlyFields == {"created", "lastUpdated", "lastRun", "runs", "webAuditRunning"}
PutSent == \E i \in 1..Len(auditCalls) : auditCalls[i].method = "PUT"

C26_ReadOnlyFieldsStripped ==
  PutSent =>
    (DOMAIN AuditPayload(auditObj, uniqueUrls)) \cap ReadOnlyFields = {}

AllTrackedUnchanged ==
  \A i \in 1..Len(sitemap) :
    /\ IsTracked(tracking, sitemap[i].url)
    /\ tracking[TrackedRow(tracking, sitemap[i].url, Len(tracking))].lastmod =
         sitemap[i].lastmod

\* C28: a runMonitor that finds every URL of the sitemap in the tracking
\* sheet with the lastmod the sitemap gives makes no audit request; so does
\* a runMonitor over the sitemap the run before it has fetched and recorded.
C28_NothingNewNoAuditRequest ==
  /\ [][(monitorRuns' = monitorRuns + 1 /\ AllTrackedUnchanged) =>
          monitorResult'.requests = <<>>]_vars
  /\ [][(monitorRuns' = monitorRuns + 1 /\ monitorResult.fetched
          /\ monitorResult.seen = sitemap) =>
          monitorResult'.requests = <<>>]_vars

\* C29: the attempt whose fetch returns at least one row ends the loop: the
\* function returns exactly what that fetch returned, after as many fetches
\* as the attempt's number and one sleep fewer, within maxRetries attempts.
C29_FirstNonEmptyAttempt ==
  [][(fetches' # fetches /\ Len(lastFetched'.rows) > 0) =>
       /\ pc' = "returned"
       /\ reportData' = lastFetched'
       /\ attempt' = attempt
       /\ attempt <= maxRetries
       /\ fetches'[reportKind] = attempt
       /\ sleeps' = attempt - 1]_vars

C29_Witness ==
  /\ pc = "returned"
  /\ attempt = 2
  /\ maxRetries = 3
  /\ Len(reportData.rows) > 0
  /\ reportData = lastFetched
  /\ fetches[reportKind] = 2
  /\ sleeps = 1

\* The primary rows whose LINK_URL is the (non-empty) key.
PrimaryRowsWith(primary, key) ==
  {p \in 1..Len(primary.rows) :
     key # "" /\ ValueOf(primary.headers, primary.rows[p], "LINK_URL") = key}

\* The broken rows whose INITIAL_PAGE_URL is the LINK_URL of a primary row.
MatchingBrokenRows(primary, broken) ==
  SelectSeq(broken.rows,
    LAMBDA b : PrimaryRowsWith(primary,
                 ValueOf(broken.headers, b, "INITIAL_PAGE_URL")) # {})

\* C30: the final report has one row for each broken row whose
\* INITIAL_PAGE_URL is the LINK_URL of some primary row, in the order of the
\* broken rows, and its primary columns are those of the last primary row
\* with that LINK_URL, also when several primary rows have it.
C30_LastDuplicatePrimaryWins ==
  (pc = "done" /\ AnsweredOK /\ stage = "secondary") =>
    LET primary == readSheetAsGridData(sheets, SHEET_PRIMARY_REPORT)
        joined == Tail(sheets[SHEET_FINAL_REPORT].data)
        matching == MatchingBrokenRows(primary, reportData)
    IN /\ Len(joined) = Len(matching)
       /\ \A i \in 1..Len(matching) :
            LET key == ValueOf(reportData.headers, matching[i], "INITIAL_PAGE_URL")
                with == PrimaryRowsWith(primary, key)
                last == primary.rows[CHOOSE p \in with : \A q \in with : q <= p]
            IN joined[i] =
                 << ValueOf(primary.headers, last, "FINAL_PAGE_URL"),
                    ValueOf(primary.headers, last, "LINK_URL"),
                    ValueOf(primary.headers, last, "LINK_TEXT"),
                    ValueOf(primary.headers, last, "LINK_OUTER_HTML"),
                    ValueOf(reportData.headers, matching[i], "FINAL_PAGE_URL"),
                    ValueOf(reportData.headers, matching[i], "FINAL_PAGE_STATUS_CODE") >>

\* Two primary rows with the link u1, on the pages pageA and pageB, and two
\* broken rows for u1: both output rows come from the row of pageB.
C30_Witness ==
  /\ pc = "done" /\ AnsweredOK /\ stage = "secondary"
  /\ ColumnValues(readSheetAsGridData(sheets, SHEET_PRIMARY_REPORT), "LINK_URL") = <<"u1", "u1">>
  /\ ColumnValues(readSheetAsGridData(sheets, SHEET_PRIMARY_REPORT), "FINAL_PAGE_URL") = <<"pageA", "pageB">>
  /\ ColumnValues(reportData, "INITIAL_PAGE_URL") = <<"u1", "u1">>
  /\ Len(sheets[SHEET_FINAL_REPORT].data) = 3
  /\ \A i \in 2..3 : sheets[SHEET_FINAL_REPORT].data[i][1] = "pageB"

\* The Primary_Report table as a primary-stage invocation persisting the
\* report leaves it.
PrimaryTableOf(report) ==
  writeGridDataToSheet(NoSheets, SHEET_PRIMARY_REPORT, report).sheets[SHEET_PRIMARY_REPORT]

\* C31: a secondary-stage invocation that ends well has built the final
\* report from the Primary_Report table as the latest primary-stage
\* invocation that persisted its report left it, whichever invocation
\* started the audit whose callback this is.
C31_JoinsLatestSnapshot ==
  (pc = "done" /\ AnsweredOK /\ stage = "secondary" /\ snapshots # <<>>) =>
    LET latest == snapshots[Len(snapshots)]
        table == [NoSheets EXCEPT ![SHEET_PRIMARY_REPORT] = PrimaryTableOf(latest)]
    IN /\ sheets[SHEET_PRIMARY_REPORT] = PrimaryTableOf(latest)
       /\ Tail(sheets[SHEET_FINAL_REPORT].data) =
            joinReports(readSheetAsGridData(table, SHEET_PRIMARY_REPORT),
                        reportData).rows

\* Two primary-stage invocations have persisted different reports before
\* the callback is handled; the final report is not the one the first
\* report gives.
C31_Witness ==
  /\ pc = "done" /\ AnsweredOK /\ stage = "secondary"
  /\ Len(snapshots) = 2
  /\ Len(sheets[SHEET_FINAL_REPORT].data) > 1
  /\ joinReports(snapshots[1], reportData).rows # <<>>
  /\ Tail(sheets[SHEET_FINAL_REPORT].data) # joinReports(snapshots[1], reportData).rows
  /\ Tail(sheets[SHEET_FINAL_REPORT].data) = joinReports(snapshots[2], reportData).rows

\* The URL list of the report an invocation fetched itself.
OwnUrls(w) ==
  extractUniqueUrls(w.reportData.rows,
                    findColumnIndex(w.reportData.headers, "LINK_URL"))

\* C32: with the invocations serialized by the caller, an invocation that
\* updates the secondary audit sends the URLs extracted from the report it
\* fetched itself; without the lock an invocation can send the list the
\* other one wrote to Unique_Link_URLs (the witness).
C32_SerializedSendsOwnUrls ==
  serialized =>
    \A i \in Workers :
      (workers[i].pc = "audit" \/ workers[i].sent)
        => workers[i].uniqueUrls = OwnUrls(workers[i])

C32_Witness ==
  /\ ~serialized
  /\ \E i \in Workers, j \in Workers :
       /\ i # j
       /\ workers[i].sent
       /\ workers[i].uniqueUrls # OwnUrls(workers[i])
       /\ workers[i].uniqueUrls = OwnUrls(workers[j])
       /\ audit.startingUrls = workers[i].uniqueUrls

\* C33: whatever setup runs there have been, failed ones included, the
\* remote has been made to create at most one primary report, one secondary
\* audit and one broken-links report.
C33_AtMostOneOfEachCreated ==
  \A k \in Kinds : remoteCreated[k] <= 1

\* C34: the body of every PUT a primary-stage invocation sends to the
\* secondary audit has at least one starting URL and a limit of at least 1.
C34_NeverEmptyUrlList ==
  (stage = "primary" /\ PutSent) =>
    /\ Len(AuditPayload(auditObj, uniqueUrls).startingUrls) >= 1
    /\ AuditPayload(auditObj, uniqueUrls).limit >= 1

\* The URLs the Unique_Link_URLs table holds (none when there is no table).
UniqueTableUrls ==
  IF ~sheets[SHEET_UNIQUE_URLS].exists THEN <<>>
  ELSE LET data == sheets[SHEET_UNIQUE_URLS].data
       IN [i \in 1..(Len(data) - 1) |-> data[i + 1][1]]

\* The distinct non-empty LINK_URL values of the Primary_Report table, in
\* the order of their first occurrence.
PrimaryTableUrls ==
  LET primary == readSheetAsGridData(sheets, SHEET_PRIMARY_REPORT)
      index == findColumnIndex(primary.headers, "LINK_URL")
  IN IF index = NotFound THEN <<>> ELSE extractUniqueUrls(primary.rows, index)

\* C35: when a primary-stage invocation has returned, with OK or with an
\* error, Unique_Link_URLs holds exactly the distinct non-empty LINK_URL
\* values of the rows of Primary_Report in first-occurrence order.
C35_TablesConsistent ==
  (pc = "done" /\ stage = "primary") => UniqueTableUrls = PrimaryTableUrls

\* C36: a makeRequest call sends at most maxRetries requests and, when it
\* returns, returns the parsed body of an answer (never nothing), whatever
\* the answers were.
C36_ReturnsBodyOrThrows ==
  /\ request.requests <= ClientMaxRetries
  /\ request.pc = "returned" => request.value # Undefined

\* C38: when fetchAllData has returned after importing at least one row,
\* the header row has been written exactly once and is in row 1, the
\* imported rows stand in rows 2 to totalRows + 1 in fetch order, no batch
\* over another, and the returned totalRows is the number of rows written.
C38_GridSheetLayout ==
  (grid.pc = "returned" /\ grid.returned >= 1) =>
    /\ grid.headerRow
    /\ grid.headerWrites = 1
    /\ grid.cells = [i \in 1..grid.returned |-> i]
    /\ grid.writes = grid.returned

\* C37: a delivery is discarded by the wrapper only when the invocation
\* holding the lock handles a delivery of the same stage: a stage=secondary
\* delivery is never answered 'skipped duplicate' because a stage=primary
\* invocation holds the lock, nor the other way round.
C37_OnlySameStageDiscarded ==
  [][\A p \in Procs :
       (wpc[p] = "trylock" /\ response'[p] = SkippedDuplicate) =>
         deliveryStage[lockHolder] = deliveryStage[p]]_vars

\* C39: a URL that a runMonitor finds new is not recorded in the tracking
\* sheet by a run that has not sent it to the audit: when the run ends
\* without the audit having been updated, every URL of the sitemap that was
\* untracked before the run is untracked after it, so that a later run
\* finds it new again and sends it.
C39_NewUrlTrackedOnlyWhenSent ==
  [][(monitorRuns' = monitorRuns + 1 /\ ~monitorResult'.auditUpdated) =>
       \A i \in 1..Len(sitemap) :
         ~IsTracked(tracking, sitemap[i].url) =>
           ~IsTracked(tracking', sitemap[i].url)]_vars
====
